---- MODULE Spec2Model ----
(***************************************************************************)
(* Verification model of freedom-api's CachingClient                       *)
(* (src/src/caching_client.rs).                                            *)
(*                                                                         *)
(* CachingClient::get hands the URL and a fetch future to                  *)
(* moka::future::Cache::try_get_with.  The cache itself is the moka crate; *)
(* its documented contract is modelled here: a populated key is answered   *)
(* from memory, concurrent calls on a missing key are coalesced into one   *)
(* evaluation of the init future, an Err of the init future is handed to   *)
(* every waiter and is not stored, a caller whose enclosing future is      *)
(* dropped while it evaluates the init future makes the other waiters      *)
(* retry, and a stored entry may be evicted by the cache's size policy at  *)
(* a moment and in an order the library chooses.                           *)
(*                                                                         *)
(* The second part models the request surface of the Api trait             *)
(* (src/src/api.rs) on the plain Client (src/src/client.rs): the paginated *)
(* stream get_paginated, driven by a consumer that pulls elements, the     *)
(* single-shot operations built on error_on_non_success, and the           *)
(* containers the operations return.                                       *)
(*                                                                         *)
(* The third part models the request context of a client (configuration   *)
(* and universal headers) and the requests made with it, the Urls the      *)
(* filtered collection reads build, the typestate builders of POST bodies  *)
(* (src/src/api/post), the HATEOAS helpers (src/src/extensions/mod.rs),    *)
(* and POST and paginated reads through the CachingClient.                 *)
(***************************************************************************)
EXTENDS Integers, FiniteSets, Sequences, TLC

\* ---------------------------------------------------------------- bounds
NumCallers == 3          \* concurrent get calls (tasks), each issued once

Callers == 1..NumCallers

\* A URL is a resource in one textual encoding: <<"r1","a">> and <<"r1","b">>
\* are two spellings (e.g. percent-encoded or not) of the same resource.
URLs == {<<"r1", "a">>, <<"r1", "b">>}
Resource(u) == u[1]

\* The type parameter T of get<T>.
Types == {"T1", "T2"}

\* Response bodies the inner client can hand back: two JSON documents and
\* one body that is not JSON.
Bodies == {"j1", "j2", "bad"}

\* Messages of the errors the inner client can fail with.
TransportErrors == {"timeout", "refused"}

\* Result<String, _> of client.get_body(url).await
GetBodyResults ==
    {[ok |-> TRUE, body |-> b] : b \in Bodies} \cup
    {[ok |-> FALSE, body |-> e] : e \in TransportErrors}

\* History markers of a request: not answered yet / future dropped.
NoReply == [ok |-> FALSE, body |-> "none"]
Dropped == [ok |-> FALSE, body |-> "dropped"]

NoUrl == <<"", "">>
Nil == [ok |-> FALSE, val |-> 0, err |-> <<>>, from |-> 0]
NoResult == [kind |-> "none", val |-> 0, err |-> <<>>, from |-> 0, hit |-> FALSE]

VARIABLES
    cache,      \* moka cache: key -> stored entry (Nil: no entry)
    pending,    \* keys with a registered waiter (an init future being evaluated)
    inflight,   \* init futures being evaluated: [id, url, by]
    fetched,    \* history: every get_body request issued, [url, got], in order
    evicted,    \* history: keys whose entry was evicted at least once
    pc,         \* per caller: "idle", "waiting", "retry", "done", "cancelled"
    url,        \* per caller: the URL passed to get
    typ,        \* per caller: the type parameter T
    res         \* per caller: the Result returned by get

VARIABLES
    spc,          \* paginated stream: "none" (not created), "new", "ready", "fetching",
                  \* "failed", "ended", "dropped"
    current_url,  \* the stream's current_url
    pag,          \* the page being yielded: items not yet yielded and its "next" link
    pfetch,       \* get_json_map calls of the stream that await their response: [id, url]
    fetches,      \* history: every page request of the stream, [url, got], in order
    yielded,      \* history: every element the stream has yielded, in order
    overflow      \* the stream has outrun the histories, which are no longer kept

VARIABLES
    cur,          \* the single-shot operation that awaits its transport: [op, t, url]
    sent,         \* history: the transport requests of single-shot operations, [method, url]
    ret           \* what the single-shot operation returned: [op, t, w, g, out]

VARIABLES
    built,        \* the value the containers were built from
    arc,          \* the allocation behind the Arc handles: [val, strong]
    hnd           \* per handle: [state, kind, val, got]

VARIABLES
    config,             \* Client.config
    universal_headers,  \* Client.universal_headers: sequence of <<key, value>>
    wrapped,            \* the client is the inner client of a CachingClient
    reqs,               \* history: the requests built with the client,
                        \* [via, method, headers, auth, had]
    made                \* the context as construction and the explicit changes left it

VARIABLES
    qcall,              \* the collection read called: [op, entry, status, account, start, end]
    qstart,             \* what the call built: [kind, url, query, err]
    qs,                 \* the returned stream: "none", "new", "fetching", "err_new",
                        \* "err_yielded", "ended", "panicked"
    qout,               \* elements the returned stream has yielded
    qreq                \* requests the returned stream has issued: [url, query]

VARIABLES
    ob,                 \* the OverrideBuilder: [state, name, satellite, configuration,
                        \* properties, sat_id, cfg_id] (ids: the id a setter was given)
    sb                  \* the SatelliteBuilder: [state, name, configuration, cfg_id]

VARIABLES
    tb,                 \* the TaskRequestBuilder: [state, kind, time, duration, satellite,
                        \* site, configuration, request]; the fields of the earlier
                        \* states are kept once the request is assembled
    tcall               \* history: the builder methods called, in order

VARIABLES
    hcall,              \* the HATEOAS helper called: [state, helper, reference, links, t]
    hgets,              \* history: the Urls the helper called get_json_map with
    hret                \* what the helper returned: [ok, val, part, err]

VARIABLES
    post                \* the POST issued through the CachingClient: [state, url, t, had,
                        \* out] (had: the entry its Url had in the cache when it was sent)

VARIABLES
    trav                \* per caller: its traversal of the collection through the
                        \* CachingClient, [state, elems, pages, after]

cacheVars == <<cache, pending, inflight, fetched, evicted, pc, url, typ, res>>
pagVars == <<spc, current_url, pag, pfetch, fetches, yielded, overflow>>
callVars == <<cur, sent, ret>>
boxVars == <<built, arc, hnd>>
surfaceVars == <<pagVars, callVars, boxVars>>
ctxVars == <<config, universal_headers, wrapped, reqs, made>>
travVars == <<trav>>
queryVars == <<qcall, qstart, qs, qout, qreq>>
overrideVars == <<ob, sb>>
taskVars == <<tb, tcall>>
linkVars == <<hcall, hgets, hret>>
postVars == <<post>>
otherVars == <<ctxVars, travVars, queryVars, overrideVars, taskVars, linkVars, postVars>>
\* What the actions of each part leave unchanged.
ctxFrame == <<cacheVars, surfaceVars, travVars, queryVars, overrideVars, taskVars, linkVars,
              postVars>>
travFrame == <<surfaceVars, ctxVars, queryVars, overrideVars, taskVars, linkVars,
              postVars>>
queryFrame == <<cacheVars, surfaceVars, ctxVars, travVars, overrideVars, taskVars, linkVars,
              postVars>>
overrideFrame == <<cacheVars, surfaceVars, ctxVars, travVars, queryVars, taskVars, linkVars,
              postVars>>
taskFrame == <<cacheVars, surfaceVars, ctxVars, travVars, queryVars, overrideVars,
              linkVars, postVars>>
linkFrame == <<cacheVars, surfaceVars, ctxVars, travVars, queryVars, overrideVars,
              taskVars, postVars>>
postFrame == <<surfaceVars, ctxVars, travVars, queryVars, overrideVars, taskVars, linkVars>>
vars == <<cache, pending, inflight, fetched, evicted, pc, url, typ, res,
          spc, current_url, pag, pfetch, fetches, yielded, overflow,
          cur, sent, ret, built, arc, hnd,
          config, universal_headers, wrapped, reqs, made, trav,
          qcall, qstart, qs, qout, qreq, ob, sb, tb, tcall,
          hcall, hgets, hret, post>>

\* ------------------------------------------------------- pure functions

\* serde_json::from_str::<Value>(&body)
FromStr(body) ==
    IF body = "j1" THEN [ok |-> TRUE, val |-> 1]
    ELSE IF body = "j2" THEN [ok |-> TRUE, val |-> 2]
    ELSE [ok |-> FALSE, val |-> 0]

\* Whether a JSON value has the shape of type T: every value decodes into
\* T1, only value 2 decodes into T2.
DecodesInto(t, v) == t = "T1" \/ v = 2

\* serde_json::from_value::<T>(val)? at the end of get; a serde_json::Error
\* becomes Error::Runtime(RuntimeError::Deserialization(message)).
FromValue(t, v, id, isHit) ==
    IF DecodesInto(t, v)
    THEN [kind |-> "ok", val |-> v, err |-> <<>>, from |-> id, hit |-> isHit]
    ELSE [kind |-> "err", val |-> 0, err |-> <<"Deserialization", "shape">>,
          from |-> id, hit |-> isHit]

\* Faulty variant of CacheKey: the key is the URL brought to one spelling.
CacheKeyNormalised(u) == <<Resource(u), "a">>
\* The key under which the cache stores the response for a URL: the Url
\* itself, as passed to get.
CacheKey(u) == u

\* Faulty variant of FetchInit: a failure is replaced by a default value.
FetchInitSwallow(r) ==
    IF r.ok /\ FromStr(r.body).ok
    THEN [ok |-> TRUE, val |-> FromStr(r.body).val, err |-> <<>>, from |-> 0]
    ELSE [ok |-> TRUE, val |-> 1, err |-> <<>>, from |-> 0]
\* The init future passed to try_get_with: get_body, then parse as JSON.
\* The second component of an error stands for e.to_string().
FetchInit(r) ==
    IF r.ok
    THEN IF FromStr(r.body).ok
         THEN [ok |-> TRUE, val |-> FromStr(r.body).val, err |-> <<>>, from |-> 0]
         ELSE [ok |-> FALSE, val |-> 0, err |-> <<"Deserialization", r.body>>, from |-> 0]
    ELSE [ok |-> FALSE, val |-> 0, err |-> <<"Response", r.body>>, from |-> 0]

\* The match on what try_get_with returned (a stored or fresh Value, or the
\* shared error), for a caller of type t.
Answer(t, out, id, isHit) ==
    IF out.ok
    THEN FromValue(t, out.val, id, isHit)
    ELSE [kind |-> "err", val |-> 0, err |-> out.err, from |-> id, hit |-> isHit]

\* Faulty variant of StoreResult: the whole Result is stored, errors too.
StoreResultPoison(c0, k, out, id) ==
    [c0 EXCEPT ![k] = [out EXCEPT !.from = id]]
\* What try_get_with stores when the init future of request id resolves to
\* out: the value of an Ok, nothing for an Err.
StoreResult(c0, k, out, id) ==
    IF out.ok THEN [c0 EXCEPT ![k] = [out EXCEPT !.from = id]] ELSE c0

\* ------------------------------------------------ request surface: data
MaxItems == 2            \* items of one page
MaxPages == 3            \* page requests of one stream kept in the histories

\* A Url is <<host, path>>; the host of a Url without a host is "".
Entrypoint == <<"entry", "">>
HeadUrl == <<"entry", "list">>
\* Values of the "next" relation of a page: a link with a host, a link
\* without a host, and a link without a host that does not resolve.
NextLinks == {<<"peer", "n">>, <<"", "n">>, <<"", "%">>}
NoLink == <<"-", "-">>

\* Response statuses and StatusCode::is_success.
Statuses == {200, 404}
IsSuccess(status) == status >= 200 /\ status < 300

\* A response body: a paginated collection, a single JSON document, or text
\* that is not JSON.
NoBody == [kind |-> "none", items |-> <<>>, next |-> NoLink, val |-> 0]
TextBody == [kind |-> "text", items |-> <<>>, next |-> NoLink, val |-> 0]
DocBodies == {[kind |-> "doc", items |-> <<>>, next |-> NoLink, val |-> v] : v \in {1, 2}}
\* The raw items of page request n: k items, of which item b (if any) does
\* not have the shape of the item type.
ItemSeqs(n) ==
    UNION {{[i \in 1..k |-> [no |-> n, ix |-> i, good |-> (i # b)]] : b \in 0..k}
             : k \in 0..MaxItems}
PageBodies(n) ==
    {[kind |-> "page", items |-> s, next |-> l, val |-> 0] :
        s \in ItemSeqs(n), l \in NextLinks \cup {NoLink}}

\* What the transport does with one request: no response (send fails), a
\* response whose body cannot be read, or a response with status and body.
WireOutcomes(bodies) ==
    {[kind |-> "noresp", status |-> 0, body |-> NoBody, msg |-> "timeout"]} \cup
    {[kind |-> "nobody", status |-> s, body |-> NoBody, msg |-> "reset"] : s \in Statuses} \cup
    {[kind |-> "answer", status |-> s, body |-> b, msg |-> ""] : s \in Statuses, b \in bodies}
NoOutcome == [kind |-> "none", status |-> 0, body |-> NoBody, msg |-> ""]
DroppedOutcome == [kind |-> "dropped", status |-> 0, body |-> NoBody, msg |-> ""]

NoError == [kind |-> "none", status |-> 0, msg |-> "", body |-> NoBody]
RuntimeError(k, m) == [kind |-> k, status |-> 0, msg |-> m, body |-> NoBody]

\* ------------------------------------- request surface: pure functions

\* Faulty variant of ClientGet: a non-2xx status is turned into an error.
ClientGetForStatus(w) ==
    IF w.kind = "answer" /\ IsSuccess(w.status)
    THEN [ok |-> TRUE, body |-> w.body, status |-> w.status, err |-> NoError]
    ELSE [ok |-> FALSE, body |-> NoBody, status |-> 0,
          err |-> RuntimeError("Response", w.msg)]
\* Client::get: send, read the status, read the body; a reqwest::Error of
\* send or bytes becomes RuntimeError::Response.
ClientGet(w) ==
    IF w.kind = "answer"
    THEN [ok |-> TRUE, body |-> w.body, status |-> w.status, err |-> NoError]
    ELSE [ok |-> FALSE, body |-> NoBody, status |-> 0,
          err |-> RuntimeError("Response", w.msg)]

\* String::from_utf8_lossy(body).to_string() on a body that is UTF-8.
Utf8Lossy(body) == body

\* error_on_non_success(&status, body)
ErrorOnNonSuccess(status, body) ==
    IF ~IsSuccess(status)
    THEN [ok |-> FALSE,
          err |-> [kind |-> "ResponseStatus", status |-> status, msg |-> "",
                   body |-> Utf8Lossy(body)]]
    ELSE [ok |-> TRUE, err |-> NoError]

\* serde_json::from_str::<T>(&utf8_str).map_err(From::from), T one of
\* "Paginated", "T1", "T2".
FromStrAs(t, body) ==
    IF \/ t = "Paginated" /\ body.kind = "page"
       \/ t \in Types /\ body.kind = "doc" /\ DecodesInto(t, body.val)
    THEN [ok |-> TRUE, val |-> body, err |-> NoError]
    ELSE [ok |-> FALSE, val |-> NoBody,
          err |-> RuntimeError("Deserialization", IF body.kind = "text" THEN "syntax" ELSE "shape")]

\* The body of get_json_map::<T> after self.get(url).await returned g.
GetJsonMap(t, g) ==
    IF ~g.ok THEN [ok |-> FALSE, val |-> NoBody, err |-> g.err]
    ELSE IF ~ErrorOnNonSuccess(g.status, g.body).ok
    THEN [ok |-> FALSE, val |-> NoBody, err |-> ErrorOnNonSuccess(g.status, g.body).err]
    ELSE FromStrAs(t, g.body)

\* serde_json::from_value::<Self::Container<T>>(item).map_err(From::from):
\* one element of the stream.
ItemElement(item) ==
    IF item.good
    THEN [kind |-> "ok", item |-> <<item.no, item.ix>>, err |-> NoError]
    ELSE [kind |-> "err", item |-> <<0, 0>>,
          err |-> RuntimeError("Deserialization", "shape")]
\* The element a `?` in the stream yields before the stream returns.
ErrElement(e) == [kind |-> "err", item |-> <<0, 0>>, err |-> e]

\* Url::join of the entrypoint with the string of a link.
Join(base, link) ==
    IF link[2] = "%" THEN [ok |-> FALSE, url |-> NoLink, msg |-> "parse"]
    ELSE IF link[1] # "" THEN [ok |-> TRUE, url |-> link, msg |-> ""]
    ELSE [ok |-> TRUE, url |-> <<base[1], link[2]>>, msg |-> ""]

\* Faulty variant of NextUrl: every link is fetched as it is.
NextUrlAsIs(base, link) == [ok |-> TRUE, url |-> link, err |-> NoError]
\* The new current_url for the "next" link of a page.
NextUrl(base, link) ==
    IF link[1] # ""
    THEN [ok |-> TRUE, url |-> link, err |-> NoError]
    ELSE IF Join(base, link).ok
         THEN [ok |-> TRUE, url |-> Join(base, link).url, err |-> NoError]
         ELSE [ok |-> FALSE, url |-> NoLink,
               err |-> RuntimeError("PaginationItemDeserialization", Join(base, link).msg)]

NoPage == [items |-> <<>>, next |-> NoLink]

\* ----------------------------------------- single-shot operations: data
\* The transport methods of Client, the operations of the Api trait that map
\* a JSON body, the delete operations and the file download.
RawOps == {"get", "post", "delete"}
JsonOps == {"get_json_map", "post_json_map"}
DeleteOps == {"delete_band_details", "delete_satellite_configuration", "delete_satellite",
              "delete_override", "delete_user", "delete_task_request"}
FileOps == {"get_file_by_task_id_and_name"}
ApiOps == JsonOps \cup DeleteOps \cup FileOps

\* The HTTP method an operation sends.
MethodOf(op) ==
    IF op \in {"get", "get_json_map"} \cup FileOps THEN "GET"
    ELSE IF op \in {"post", "post_json_map"} THEN "POST"
    ELSE "DELETE"

\* The path a delete operation formats from its id (42 here).
DeletePath(op) ==
    IF op = "delete_band_details" THEN "satellite_bands/42"
    ELSE IF op = "delete_satellite_configuration" THEN "satellite_configurations/42"
    ELSE IF op = "delete_satellite" THEN "satellites/42"
    ELSE IF op = "delete_override" THEN "overrides/42"
    ELSE IF op = "delete_user" THEN "users/42"
    ELSE "requests/42"
\* The path of the file download for task 42 and the file name given.
FileNames == {"data.bin"}
FilePath(name) == "downloads/42/" \o name

\* path_to_url: the path joined to the entrypoint; a join error becomes
\* InvalidUri.
PathToUrl(path) ==
    IF Join(Entrypoint, <<"", path>>).ok
    THEN [ok |-> TRUE, url |-> Join(Entrypoint, <<"", path>>).url, err |-> NoError]
    ELSE [ok |-> FALSE, url |-> NoLink,
          err |-> RuntimeError("InvalidUri", Join(Entrypoint, <<"", path>>).msg)]

\* Bodies a single-shot operation can be answered with.
CallBodies == DocBodies \cup {TextBody}
\* Result<(Bytes, StatusCode), Error>: what self.get, self.delete and
\* self.post hand to the operations of the Api trait.
NoTransportResult == [ok |-> FALSE, body |-> NoBody, status |-> 0, err |-> NoError]
TransportResults ==
    {[ok |-> TRUE, body |-> b, status |-> st, err |-> NoError] :
        b \in CallBodies, st \in Statuses} \cup
    {[ok |-> FALSE, body |-> NoBody, status |-> 0, err |-> RuntimeError("Response", m)] :
        m \in {"timeout", "reset"}}

\* The body error_on_non_success is given by the file download.
FailedToFetchFile == [kind |-> "Failed to fetch file", items |-> <<>>, next |-> NoLink, val |-> 0]

\* Results of single-shot operations: Ok(val) (with the status, for the
\* transport methods) or Err(err).
NoOut == [ok |-> FALSE, val |-> NoBody, status |-> 0, err |-> NoError]
OkOut(v, st) == [ok |-> TRUE, val |-> v, status |-> st, err |-> NoError]
ErrOut(e) == [ok |-> FALSE, val |-> NoBody, status |-> 0, err |-> e]

\* Client::post and Client::delete: send; the Response is returned as it
\* is, its body unread; a reqwest::Error of send becomes
\* RuntimeError::Response.
ClientSend(w) ==
    IF w.kind = "noresp" THEN ErrOut(RuntimeError("Response", w.msg))
    ELSE OkOut(NoBody, w.status)

\* The body of post_json_map::<S, T> after self.post(url, msg).await
\* returned g.
PostJsonMap(t, g) ==
    IF ~g.ok THEN [ok |-> FALSE, val |-> NoBody, err |-> g.err]
    ELSE IF ~ErrorOnNonSuccess(g.status, g.body).ok
    THEN [ok |-> FALSE, val |-> NoBody, err |-> ErrorOnNonSuccess(g.status, g.body).err]
    ELSE FromStrAs(t, g.body)

\* The body of the delete_* operations after self.delete(uri).await
\* returned g.
DeleteById(g) ==
    IF ~g.ok THEN ErrOut(g.err)
    ELSE IF ~ErrorOnNonSuccess(g.status, g.body).ok
    THEN ErrOut(ErrorOnNonSuccess(g.status, g.body).err)
    ELSE OkOut(NoBody, 0)

\* The body of get_file_by_task_id_and_name after self.get(uri).await
\* returned g.
GetFile(g) ==
    IF ~g.ok THEN ErrOut(g.err)
    ELSE IF ~ErrorOnNonSuccess(g.status, FailedToFetchFile).ok
    THEN ErrOut(ErrorOnNonSuccess(g.status, FailedToFetchFile).err)
    ELSE OkOut(g.body, 0)

\* What operation op of the Api trait returns once its transport call
\* returned g.
ApiOpResult(op, t, g) ==
    IF op = "get_json_map"
    THEN [ok |-> GetJsonMap(t, g).ok, val |-> GetJsonMap(t, g).val, status |-> 0,
          err |-> GetJsonMap(t, g).err]
    ELSE IF op = "post_json_map"
    THEN [ok |-> PostJsonMap(t, g).ok, val |-> PostJsonMap(t, g).val, status |-> 0,
          err |-> PostJsonMap(t, g).err]
    ELSE IF op \in DeleteOps THEN DeleteById(g)
    ELSE GetFile(g)

\* The Url an operation sends its request to: the url argument of the
\* transport methods and of the JSON operations, the path joined to the
\* entrypoint for the others.
UrlOf(op, name) ==
    IF op \in RawOps \cup JsonOps THEN [ok |-> TRUE, url |-> HeadUrl, err |-> NoError]
    ELSE IF op \in DeleteOps THEN PathToUrl(DeletePath(op))
    ELSE PathToUrl(FilePath(name))

NoCall == [op |-> "none", t |-> "T1", url |-> NoLink]

\* ------------------------------------------------------ containers: data
MaxHandles == 3          \* containers of one value alive at a time

Handles == 1..MaxHandles
\* Values of the type T a container wraps (0 stands for T::default()).
Values == {1, 2}
\* Container kinds: Inner<T> of Client and Arc<T> of CachingClient.
Kinds == {"Inner", "Arc"}

NoHandle == [state |-> "none", kind |-> "Inner", val |-> 0, got |-> 0]
NoArc == [val |-> 0, strong |-> 0]

\* Inner::new(inner); serde builds the same from a JSON value (transparent).
InnerNew(v) == [state |-> "live", kind |-> "Inner", val |-> v, got |-> 0]
\* A handle on the allocation of an Arc.
ArcHandle == [state |-> "live", kind |-> "Arc", val |-> 0, got |-> 0]

\* Deref::deref: &self.0 of an Inner, the value in the allocation of an Arc.
Deref(h, a) == IF h.kind = "Inner" THEN h.val ELSE a.val

\* Container::into_inner of Inner: self.0.
InnerIntoInner(h) == h.val

\* Faulty variant of UnwrapOrClone: Arc::try_unwrap(self).unwrap_or_default().
TryUnwrapOrDefault(a) ==
    IF a.strong = 1
    THEN [val |-> a.val, arc |-> NoArc]
    ELSE [val |-> 0, arc |-> [a EXCEPT !.strong = a.strong - 1]]
\* Container::into_inner of Arc: Arc::unwrap_or_clone(self): the value is
\* moved out of the allocation when this is its only handle, and cloned
\* otherwise, the handle being dropped.
UnwrapOrClone(a) ==
    IF a.strong = 1
    THEN [val |-> a.val, arc |-> NoArc]
    ELSE [val |-> a.val, arc |-> [a EXCEPT !.strong = a.strong - 1]]
NoRet == [op |-> "none", t |-> "T1", w |-> NoOutcome, g |-> NoTransportResult, out |-> NoOut]

\* ------------------------------------------------- request context: data
MaxHeaders == 2          \* universal headers added to one client
MaxReqs == 2             \* requests recorded for one client

\* Configurations a client is built from or changed to; the key and the
\* secret of the basic authentication are read from it.
Configs == {"c1", "c2"}
NoConfig == "none"
\* Headers with_universal_header is called with; two of them share a key.
Headers == {<<"h1", "v1">>, <<"h1", "v2">>, <<"h2", "v1">>}
Methods == {"GET", "POST", "DELETE"}
NoContext == [config |-> NoConfig, headers |-> <<>>]

\* Client::append_headers: req.header(header, value) for each universal
\* header in turn; RequestBuilder::header appends to the request's headers.
RECURSIVE AppendHeaders(_, _)
AppendHeaders(headers, req) ==
    IF headers = <<>> THEN req
    ELSE AppendHeaders(Tail(headers), Append(req, Head(headers)))

\* .basic_auth(self.config.key(), Some(self.config.expose_secret()))
BasicAuth(c) == <<"basic", c>>

\* The request Client::get, Client::post and Client::delete build and send.
ClientRequest(m, c, hs) ==
    [via |-> "Client", method |-> m, headers |-> AppendHeaders(hs, <<>>),
     auth |-> BasicAuth(c), had |-> hs]

\* The request CachingClient::post builds and sends: self.inner.client
\* .post(url).basic_auth(..).json(&msg).
CachingPostRequest(c, hs) ==
    [via |-> "CachingClient", method |-> "POST", headers |-> <<>>,
     auth |-> BasicAuth(c), had |-> hs]

\* The request of client.get_body(url) in CachingClient::get: the GET of
\* the inner client.
GetBodyRequest(c, hs) ==
    [via |-> "CachingClient", method |-> "GET", headers |-> AppendHeaders(hs, <<>>),
     auth |-> BasicAuth(c), had |-> hs]

\* --------------------------------------- traversal through the cache: data
NumTraversals == 2       \* traversals of the collection (callers 1..NumTraversals)

Traversers == 1..NumTraversals
\* The collection is read from TravHead; a page may link to TravSecond.
TravHead == <<"r1", "a">>
TravSecond == <<"r1", "b">>
\* The type the pages are decoded into (every JSON value here is a page).
PageType == "T1"

\* The page a JSON value stands for when served at u: value v is a page of
\* v items; value 1 at the head has a "next" link to the second page.
PageOf(u, v) ==
    [items |-> [i \in 1..v |-> <<u, v, i>>],
     next |-> IF v = 1 /\ u = TravHead THEN TravSecond ELSE NoLink]

NoTraversal == [state |-> "none"]

\* ------------------------------------------- collection reads: start Url
\* Entrypoints of the client's environment: the usual one, and one that
\* cannot be a base (Url::join fails on it).
OpaqueEntrypoint == <<"mailto", "">>
Entrypoints == {Entrypoint, OpaqueEntrypoint}
\* Arguments of the collection reads.
StatusArgs == {"RECEIVED", "bogus"}
AccountArgs == {"accounts/1", "accounts/2"}
\* Times: two that format as ISO 8601 and one that does not (a year below 0).
TimeArgs == {"t1", "t2", "tneg"}
NoArg == "-"

CollectionOps == {"get_accounts", "get_requests_by_status", "get_tasks_by_pass_overlapping",
                  "get_requests_by_status_and_account_and_target_date_between"}

\* self.path_to_url(path) of a client whose entrypoint is base.
PathToUrlFrom(base, path) ==
    IF base = OpaqueEntrypoint
    THEN [ok |-> FALSE, url |-> NoLink, err |-> RuntimeError("InvalidUri", "base")]
    ELSE IF Join(base, <<"", path>>).ok
    THEN [ok |-> TRUE, url |-> Join(base, <<"", path>>).url, err |-> NoError]
    ELSE [ok |-> FALSE, url |-> NoLink,
          err |-> RuntimeError("InvalidUri", Join(base, <<"", path>>).msg)]

\* time.format(&Iso8601::DEFAULT).map_err(Error::from)
FormatIso(time) ==
    IF time = "tneg"
    THEN [ok |-> FALSE, str |-> "", err |-> RuntimeError("TimeFormatError", "year")]
    ELSE [ok |-> TRUE, str |-> "iso-" \o time, err |-> NoError]

\* status.try_into() into TaskStatusType, and Error::from of its error.
TryIntoStatus(status) ==
    IF status = "RECEIVED"
    THEN [ok |-> TRUE, str |-> "RECEIVED", err |-> NoError]
    ELSE [ok |-> FALSE, str |-> "", err |-> RuntimeError("EnumDeserialization", status)]

\* What a collection read returns: the stream of get_paginated(uri) with
\* its query, the stream of once_err, or no stream (a panic).
StreamOf(u, q) == [kind |-> "stream", url |-> u, query |-> q, err |-> NoError]
OnceErr(e) == [kind |-> "once_err", url |-> NoLink, query |-> <<>>, err |-> e]
Panic == [kind |-> "panic", url |-> NoLink, query |-> <<>>, err |-> NoError]
NoStart == [kind |-> "none"]
NoQuery == [op |-> "none"]

GetAccounts(q) ==
    IF ~PathToUrlFrom(q.entry, "accounts").ok
    THEN OnceErr(PathToUrlFrom(q.entry, "accounts").err)
    ELSE StreamOf(PathToUrlFrom(q.entry, "accounts").url, <<>>)

GetRequestsByStatus(q) ==
    LET path == "requests/search/findByStatus" IN
    IF ~TryIntoStatus(q.status).ok THEN OnceErr(TryIntoStatus(q.status).err)
    ELSE IF ~PathToUrlFrom(q.entry, path).ok THEN OnceErr(PathToUrlFrom(q.entry, path).err)
    ELSE StreamOf(PathToUrlFrom(q.entry, path).url,
                  <<<<"status", TryIntoStatus(q.status).str>>>>)

GetTasksByPassOverlapping(q) ==
    LET path == "tasks/search/findByOverlapping" IN
    IF ~FormatIso(q.start).ok THEN OnceErr(FormatIso(q.start).err)
    ELSE IF ~FormatIso(q.end).ok THEN OnceErr(FormatIso(q.end).err)
    ELSE IF ~PathToUrlFrom(q.entry, path).ok THEN OnceErr(PathToUrlFrom(q.entry, path).err)
    ELSE StreamOf(PathToUrlFrom(q.entry, path).url,
                  <<<<"start", FormatIso(q.start).str>>, <<"end", FormatIso(q.end).str>>>>)

\* get_requests_by_status_and_account_and_target_date_between: the two
\* formatted times are unwrapped.
GetRequestsByStatusAccountBetween(q) ==
    LET path == "requests/search/findAllByStatusAndAccountAndTargetDateBetween" IN
    IF ~PathToUrlFrom(q.entry, path).ok THEN OnceErr(PathToUrlFrom(q.entry, path).err)
    ELSE IF ~FormatIso(q.start).ok \/ ~FormatIso(q.end).ok THEN Panic
    ELSE StreamOf(PathToUrlFrom(q.entry, path).url,
                  <<<<"status", q.status>>, <<"satelliteNames", q.account>>,
                    <<"start", FormatIso(q.start).str>>, <<"end", FormatIso(q.end).str>>>>)

StartOf(q) ==
    IF q.op = "get_accounts" THEN GetAccounts(q)
    ELSE IF q.op = "get_requests_by_status" THEN GetRequestsByStatus(q)
    ELSE IF q.op = "get_tasks_by_pass_overlapping" THEN GetTasksByPassOverlapping(q)
    ELSE GetRequestsByStatusAccountBetween(q)

\* The calls of the collection reads, each with the arguments it takes.
Queries ==
    {[op |-> "get_accounts", entry |-> e, status |-> NoArg, account |-> NoArg,
      start |-> NoArg, end |-> NoArg] : e \in Entrypoints} \cup
    {[op |-> "get_requests_by_status", entry |-> e, status |-> s, account |-> NoArg,
      start |-> NoArg, end |-> NoArg] : e \in Entrypoints, s \in StatusArgs} \cup
    {[op |-> "get_tasks_by_pass_overlapping", entry |-> e, status |-> NoArg,
      account |-> NoArg, start |-> a, end |-> b] :
        e \in Entrypoints, a \in TimeArgs, b \in TimeArgs} \cup
    {[op |-> "get_requests_by_status_and_account_and_target_date_between", entry |-> e,
      status |-> s, account |-> x, start |-> a, end |-> b] :
        e \in Entrypoints, s \in StatusArgs, x \in AccountArgs,
        a \in TimeArgs, b \in TimeArgs}

\* ------------------------------------------------- POST builders: data
\* Arguments of the builders' setters.
BuilderNames == {"n1"}
BuilderIds == {1, 2}
BuilderUrls == {<<"peer", "x/9">>}
PropKeys == {"k1", "k2"}
PropValues == {"8096", "1"}

\* UrlResult::Unchecked(result of path_to_url) and UrlResult::Checked(url).
UrlUnchecked(r) == [tag |-> "Unchecked", ok |-> r.ok, url |-> r.url, err |-> r.err]
UrlChecked(u) == [tag |-> "Checked", ok |-> TRUE, url |-> u, err |-> NoError]
NoUrlResult == [tag |-> "none", ok |-> FALSE, url |-> NoLink, err |-> NoError]

NoOverrideBuilder == [state |-> "none"]
NoSatelliteBuilder == [state |-> "none"]
\* The builders as new() returns them.
NewOverrideBuilder ==
    [state |-> "NoName", name |-> "", satellite |-> NoUrlResult, configuration |-> NoUrlResult,
     properties |-> {}, sat_id |-> 0, cfg_id |-> 0]
NewSatelliteBuilder ==
    [state |-> "NoName", name |-> "", configuration |-> NoUrlResult, cfg_id |-> 0]

\* OverrideBuilder::satellite_id: the Url the satellite is set to.
OverrideSatelliteUrl(id) == UrlUnchecked(PathToUrl("satellites/" \o ToString(id)))
\* OverrideBuilder::satellite_configuration_id: the Url the configuration
\* is set to.
OverrideConfigurationUrl(id) == UrlUnchecked(PathToUrl("satellites/" \o ToString(id)))
\* SatelliteBuilder::satellite_configuration_id: the Url the configuration
\* is set to.
SatelliteConfigurationUrl(id) ==
    UrlUnchecked(PathToUrl("satellite_configurations/" \o ToString(id)))
\* HashMap::insert(key, value)
MapInsert(m, k, v) == {e \in m : e[1] # k} \cup {<<k, v>>}

\* ------------------------------------------------- task request: data
\* The most calls of the optional setters made on one builder.
MaxSetters == 2

\* Arguments of the builder's steps.
FlexTaskKinds == {"Before", "After", "Around"}
FlexHours == {1, 2}
TestFiles == {"f1"}
TaskTimes == {"t1", "t2"}
TaskDurations == {60, 120}
MinimumDurations == {30}
BandIds == {<<>>, <<1>>, <<1, 2>>}
BandUrls == {<<<<"peer", "b/7">>>>}

\* Option<T>
None == <<>>
Some(v) == <<v>>

\* The kind the first step stores: ExactTask, FlexTask {kind, hours_of_flex},
\* TestTask {test_file}.
NoKind == [task |-> "none", kind |-> "", hours_of_flex |-> 0, test_file |-> ""]
ExactTaskKind == [NoKind EXCEPT !.task = "ExactTask"]
FlexTaskKind(kind, hours_of_flex) ==
    [NoKind EXCEPT !.task = "FlexTask", !.kind = kind, !.hours_of_flex = hours_of_flex]
TestTaskKind(test_file) == [NoKind EXCEPT !.task = "TestTask", !.test_file = test_file]

NoTaskRequest ==
    [typ |-> "none", site |-> NoUrlResult, satellite |-> NoUrlResult,
     configuration |-> NoUrlResult, target_bands |-> <<>>, target_date |-> "",
     duration |-> 0, minimum_duration |-> None, hours_of_flex |-> None,
     test_file |-> None, with_override |-> None]
NoTaskBuilder == [state |-> "none"]
\* The builder as new() returns it.
NewTaskBuilder ==
    [state |-> "NoType", kind |-> NoKind, time |-> "", duration |-> 0,
     satellite |-> NoUrlResult, site |-> NoUrlResult, configuration |-> NoUrlResult,
     request |-> NoTaskRequest]

\* TaskInner::adjust of the three kinds.
Adjust(kind, request) ==
    IF kind.task = "TestTask"
    THEN [request EXCEPT !.typ = "Test", !.test_file = Some(kind.test_file)]
    ELSE IF kind.task = "FlexTask"
    THEN [request EXCEPT !.typ = kind.kind, !.hours_of_flex = Some(kind.hours_of_flex)]
    ELSE [request EXCEPT !.typ = "Exact"]

\* The target time formatted as [year]-[month]-[day]T[hour]:[minute]:[second]Z.
FormatTargetDate(time) == time \o "Z"

\* Faulty variant of BandResults: the minimum duration is left unset.
BandResultsNoMinimum(b, urls) ==
    Adjust(b.kind,
           [typ |-> "After", site |-> b.site, satellite |-> b.satellite,
            configuration |-> b.configuration, target_bands |-> urls,
            target_date |-> FormatTargetDate(b.time), duration |-> b.duration,
            minimum_duration |-> None, hours_of_flex |-> None,
            test_file |-> None, with_override |-> None])
\* TaskRequestBuilder<NoBand<T>>::band_results: the request assembled from
\* the builder's state, then adjusted by the kind.
BandResults(b, urls) ==
    Adjust(b.kind,
           [typ |-> "After", site |-> b.site, satellite |-> b.satellite,
            configuration |-> b.configuration, target_bands |-> urls,
            target_date |-> FormatTargetDate(b.time), duration |-> b.duration,
            minimum_duration |-> Some(b.duration), hours_of_flex |-> None,
            test_file |-> None, with_override |-> None])

\* The optional setters called so far.
SettersCalled ==
    Cardinality({i \in DOMAIN tcall :
                    tcall[i] \in {"task_minimum_duration", "override_id", "override_url"}})

\* ----------------------------------------------- HATEOAS helpers: data
\* The relations an entity may link and the Urls of its links.
Relations == {"site", "satellite"}
LinkUrls == {<<"peer", "s/1">>, <<"peer", "s/2">>}
\* HashMap<String, Url>: the links of an entity.
LinkMaps == UNION {[rels -> LinkUrls] : rels \in SUBSET Relations}
Helpers == {"get_item", "get_embedded", "get_content"}

MissingUri(reference) ==
    [kind |-> "MissingUri", status |-> 0, msg |-> reference, body |-> NoBody]

\* Faulty variant of LinkOf: a relation without a link is looked up as a
\* path of the entrypoint.
LinkOfOrPath(reference, links) ==
    IF reference \in DOMAIN links
    THEN [ok |-> TRUE, url |-> links[reference], err |-> NoError]
    ELSE PathToUrl(reference)
\* links.get(reference).ok_or(Error::MissingUri(reference))
LinkOf(reference, links) ==
    IF reference \in DOMAIN links
    THEN [ok |-> TRUE, url |-> links[reference], err |-> NoError]
    ELSE [ok |-> FALSE, url |-> NoLink, err |-> MissingUri(reference)]

\* The part of the decoded value a helper returns: get_item the value,
\* get_embedded wrapped.items, get_content wrapped.inner.
PartOf(helper) ==
    IF helper = "get_item" THEN "value"
    ELSE IF helper = "get_embedded" THEN "items"
    ELSE "inner"

NoHelperCall == [state |-> "none"]
NoHelperRet == [ok |-> FALSE]

\* ------------------------------------------- POST through the cache: data
NumGetters == 2          \* get calls (callers 1..NumGetters) made around the POSTs

Getters == 1..NumGetters
NoPost == [state |-> "none"]

\* The rest of CachingClient::post once send and text returned r: a
\* reqwest::Error becomes RuntimeError::Response, the text is decoded as T.
PostResult(t, r) ==
    IF ~r.ok
    THEN [kind |-> "err", val |-> 0, err |-> <<"Response", r.body>>, from |-> 0, hit |-> FALSE]
    ELSE IF FromStr(r.body).ok /\ DecodesInto(t, FromStr(r.body).val)
    THEN [kind |-> "ok", val |-> FromStr(r.body).val, err |-> <<>>, from |-> 0, hit |-> FALSE]
    ELSE [kind |-> "err", val |-> 0,
          err |-> <<"Deserialization", IF FromStr(r.body).ok THEN "shape" ELSE r.body>>,
          from |-> 0, hit |-> FALSE]

\* ------------------------------------------------------------ key state
Populated(k) == cache[k] # Nil
Pending(k) == ~Populated(k) /\ k \in pending
Absent(k) == ~Populated(k) /\ k \notin pending
KeyState(k) ==
    IF Populated(k) THEN "Populated" ELSE IF k \in pending THEN "Pending" ELSE "Absent"

WaitingOn(k) == {c \in Callers : pc[c] = "waiting" /\ CacheKey(url[c]) = k}

Init ==
    /\ cache = [k \in URLs |-> Nil]
    /\ pending = {}
    /\ inflight = {}
    /\ fetched = <<>>
    /\ evicted = {}
    /\ pc = [c \in Callers |-> "idle"]
    /\ url = [c \in Callers |-> NoUrl]
    /\ typ = [c \in Callers |-> "T1"]
    /\ res = [c \in Callers |-> NoResult]
    /\ spc = "none"
    /\ current_url = NoLink
    /\ pag = NoPage
    /\ pfetch = {}
    /\ fetches = <<>>
    /\ yielded = <<>>
    /\ overflow = FALSE
    /\ cur = NoCall
    /\ sent = <<>>
    /\ ret = NoRet
    /\ built = 0
    /\ arc = NoArc
    /\ hnd = [h \in Handles |-> NoHandle]
    /\ config = NoConfig
    /\ universal_headers = <<>>
    /\ wrapped = FALSE
    /\ reqs = <<>>
    /\ made = NoContext
    /\ trav = [c \in Callers |-> NoTraversal]
    /\ qcall = NoQuery
    /\ qstart = NoStart
    /\ qs = "none"
    /\ qout = <<>>
    /\ qreq = <<>>
    /\ ob = NoOverrideBuilder
    /\ sb = NoSatelliteBuilder
    /\ tb = NoTaskBuilder
    /\ tcall = <<>>
    /\ hcall = NoHelperCall
    /\ hgets = <<>>
    /\ hret = NoHelperRet
    /\ post = NoPost

\* --------------------------------------------------------------- actions

\* Faulty variant of TryGetWith: a miss always evaluates its own init future.
TryGetWithNoCoalesce(c, u, t) ==
    LET k == CacheKey(u) IN
    IF Populated(k)
    THEN /\ pc' = [pc EXCEPT ![c] = "done"]
         /\ res' = [res EXCEPT ![c] = Answer(t, cache[k], cache[k].from, TRUE)]
         /\ UNCHANGED <<cache, pending, inflight, fetched>>
    ELSE /\ pc' = [pc EXCEPT ![c] = "waiting"]
         /\ pending' = pending \cup {k}
         /\ inflight' = inflight \cup {[id |-> Len(fetched) + 1, url |-> u, by |-> c]}
         /\ fetched' = Append(fetched, [url |-> u, got |-> NoReply])
         /\ UNCHANGED <<cache, res>>
\* Faulty variant of TryGetWith: a stored entry is not looked up.
TryGetWithNoCache(c, u, t) ==
    LET k == CacheKey(u) IN
    IF k \in pending
    THEN /\ pc' = [pc EXCEPT ![c] = "waiting"]
         /\ UNCHANGED <<cache, pending, inflight, fetched, res>>
    ELSE /\ pc' = [pc EXCEPT ![c] = "waiting"]
         /\ pending' = pending \cup {k}
         /\ inflight' = inflight \cup {[id |-> Len(fetched) + 1, url |-> u, by |-> c]}
         /\ fetched' = Append(fetched, [url |-> u, got |-> NoReply])
         /\ UNCHANGED <<cache, res>>
\* cache.try_get_with(url, init) as entered by caller c (first time, or again
\* after the evaluating caller was dropped): answer from the cache, or wait
\* on the existing waiter, or register the waiter and start evaluating init.
TryGetWith(c, u, t) ==
    LET k == CacheKey(u) IN
    IF Populated(k)
    THEN /\ pc' = [pc EXCEPT ![c] = "done"]
         /\ res' = [res EXCEPT ![c] = Answer(t, cache[k], cache[k].from, TRUE)]
         /\ UNCHANGED <<cache, pending, inflight, fetched>>
    ELSE IF k \in pending
    THEN /\ pc' = [pc EXCEPT ![c] = "waiting"]
         /\ UNCHANGED <<cache, pending, inflight, fetched, res>>
    ELSE /\ pc' = [pc EXCEPT ![c] = "waiting"]
         /\ pending' = pending \cup {k}
         /\ inflight' = inflight \cup {[id |-> Len(fetched) + 1, url |-> u, by |-> c]}
         /\ fetched' = Append(fetched, [url |-> u, got |-> NoReply])
         /\ UNCHANGED <<cache, res>>

\* A task calls CachingClient::get::<t>(u).  Callers are numbered in the
\* order in which they call.
Get(c, u, t) ==
    /\ pc[c] = "idle"
    /\ \A d \in Callers : d < c => pc[d] # "idle"
    /\ url' = [url EXCEPT ![c] = u]
    /\ typ' = [typ EXCEPT ![c] = t]
    /\ TryGetWith(c, u, t)
    /\ UNCHANGED evicted
    /\ UNCHANGED <<surfaceVars, otherVars>>

\* Faulty variant of Resolve: the body is decoded into the evaluating
\* caller's type before it is stored, and a body that does not decode is
\* not stored.
ResolveDecodeFirst(f, r) ==
    LET k == CacheKey(f.url)
        raw == FetchInit(r)
        out == IF raw.ok /\ ~DecodesInto(typ[f.by], raw.val)
               THEN [ok |-> FALSE, val |-> 0, err |-> <<"Deserialization", "shape">>,
                     from |-> 0]
               ELSE raw
    IN  /\ f \in inflight
        /\ cache' = StoreResult(cache, k, out, f.id)
        /\ pending' = pending \ {k}
        /\ inflight' = inflight \ {f}
        /\ fetched' = [fetched EXCEPT ![f.id].got = r]
        /\ pc' = [c \in Callers |-> IF c \in WaitingOn(k) THEN "done" ELSE pc[c]]
        /\ res' = [c \in Callers |->
                     IF c \in WaitingOn(k) THEN Answer(typ[c], out, f.id, FALSE) ELSE res[c]]
        /\ UNCHANGED <<evicted, url, typ>>
        /\ UNCHANGED <<surfaceVars, otherVars>>
\* The init future of fetch f completes with get_body result r: the value
\* is stored (Ok only), the waiter is removed, and every caller waiting on
\* the key returns from get.
Resolve(f, r) ==
    LET k == CacheKey(f.url)
        out == FetchInit(r)
    IN  /\ f \in inflight
        /\ cache' = StoreResult(cache, k, out, f.id)
        /\ pending' = pending \ {k}
        /\ inflight' = inflight \ {f}
        /\ fetched' = [fetched EXCEPT ![f.id].got = r]
        /\ pc' = [c \in Callers |-> IF c \in WaitingOn(k) THEN "done" ELSE pc[c]]
        /\ res' = [c \in Callers |->
                     IF c \in WaitingOn(k) THEN Answer(typ[c], out, f.id, FALSE) ELSE res[c]]
        /\ UNCHANGED <<evicted, url, typ>>
        /\ UNCHANGED <<surfaceVars, otherVars>>

\* Faulty variant of Cancel: the drop of the evaluating caller removes its
\* request but neither removes the waiter nor wakes the callers waiting on it.
CancelNoWake(c) ==
    /\ pc[c] \in {"waiting", "retry"}
    /\ pc' = [pc EXCEPT ![c] = "cancelled"]
    /\ inflight' = {f \in inflight : f.by # c}
    /\ fetched' = [i \in DOMAIN fetched |->
                     IF \E f \in inflight : f.by = c /\ f.id = i
                     THEN [fetched[i] EXCEPT !.got = Dropped] ELSE fetched[i]]
    /\ UNCHANGED <<cache, pending, evicted, url, typ, res>>
    /\ UNCHANGED <<surfaceVars, otherVars>>

\* The future of caller c's get is dropped before it returned.  If c was
\* evaluating the init future, the request is dropped with it, the waiter
\* is removed and the callers waiting on it run try_get_with again.
Cancel(c) ==
    /\ pc[c] \in {"waiting", "retry"}
    /\ IF \E f \in inflight : f.by = c
       THEN LET f == CHOOSE g \in inflight : g.by = c
                k == CacheKey(f.url)
            IN  /\ inflight' = inflight \ {f}
                /\ pending' = pending \ {k}
                /\ fetched' = [fetched EXCEPT ![f.id].got = Dropped]
                /\ pc' = [d \in Callers |->
                            IF d = c THEN "cancelled"
                            ELSE IF d \in WaitingOn(k) THEN "retry" ELSE pc[d]]
       ELSE /\ pc' = [pc EXCEPT ![c] = "cancelled"]
            /\ UNCHANGED <<inflight, pending, fetched>>
    /\ UNCHANGED <<cache, evicted, url, typ, res>>
    /\ UNCHANGED <<surfaceVars, otherVars>>

\* A caller woken by the drop of the evaluating caller enters try_get_with
\* again.
Retry(c) ==
    /\ pc[c] = "retry"
    /\ TryGetWith(c, url[c], typ[c])
    /\ UNCHANGED <<evicted, url, typ>>
    /\ UNCHANGED <<surfaceVars, otherVars>>

\* The cache's size policy evicts the entry of key k.
Evict(k) ==
    /\ Populated(k)
    /\ cache' = [cache EXCEPT ![k] = Nil]
    /\ evicted' = evicted \cup {k}
    /\ UNCHANGED <<pending, inflight, fetched, pc, url, typ, res>>
    /\ UNCHANGED <<surfaceVars, otherVars>>

\* ------------------------------------------------- get_paginated: actions

\* The task has not called the request surface yet; it calls one operation.
Idle == spc = "none" /\ cur = NoCall /\ ret = NoRet

\* get_paginated(head_url): the stream is built; nothing runs until it is
\* polled.
GetPaginated(head_url) ==
    /\ Idle
    /\ spc' = "new"
    /\ current_url' = head_url
    /\ UNCHANGED <<pag, pfetch, fetches, yielded, overflow>>
    /\ UNCHANGED <<cacheVars, callVars, boxVars, otherVars>>

\* The stream yields element e and suspends at the yield.
Yield(e, pf, fs) ==
    /\ yielded' = IF overflow THEN yielded ELSE Append(yielded, e)
    /\ pfetch' = pf
    /\ fetches' = fs
    /\ UNCHANGED <<current_url, overflow>>

\* The top of the loop: get_json_map(current_url) is called and awaited.
\* Once MaxPages requests are in the histories the histories are given up.
IssueFetch(u, pf, fs) ==
    /\ spc' = "fetching"
    /\ current_url' = u
    /\ pag' = NoPage
    /\ IF ~overflow /\ Len(fs) < MaxPages
       THEN /\ pfetch' = pf \cup {[id |-> Len(fs) + 1, url |-> u]}
            /\ fetches' = Append(fs, [url |-> u, got |-> NoOutcome])
            /\ UNCHANGED <<yielded, overflow>>
       ELSE /\ pfetch' = pf \cup {[id |-> 0, url |-> u]}
            /\ fetches' = <<>>
            /\ yielded' = <<>>
            /\ overflow' = TRUE

\* Faulty variant of Continue: the stream ends after the last item of a page
\* whether or not the page has a "next" link.
ContinueNoFollow(its, nx, pf, fs) ==
    IF its # <<>>
    THEN /\ spc' = "ready"
         /\ pag' = [items |-> Tail(its), next |-> nx]
         /\ Yield(ItemElement(Head(its)), pf, fs)
    ELSE /\ spc' = "ended"
         /\ pag' = NoPage
         /\ pfetch' = pf
         /\ fetches' = fs
         /\ UNCHANGED <<current_url, yielded, overflow>>
\* Faulty variant of Continue: an item that fails to decode is propagated
\* with `?`, which ends the stream.
ContinueAbortOnBadItem(its, nx, pf, fs) ==
    IF its # <<>>
    THEN /\ spc' = IF Head(its).good THEN "ready" ELSE "failed"
         /\ pag' = IF Head(its).good THEN [items |-> Tail(its), next |-> nx] ELSE NoPage
         /\ Yield(ItemElement(Head(its)), pf, fs)
    ELSE IF nx = NoLink
    THEN /\ spc' = "ended"
         /\ pag' = NoPage
         /\ pfetch' = pf
         /\ fetches' = fs
         /\ UNCHANGED <<current_url, yielded, overflow>>
    ELSE IF NextUrl(Entrypoint, nx).ok
    THEN IssueFetch(NextUrl(Entrypoint, nx).url, pf, fs)
    ELSE /\ spc' = "failed"
         /\ pag' = NoPage
         /\ Yield(ErrElement(NextUrl(Entrypoint, nx).err), pf, fs)
\* The stream runs on with the items its of the page left to yield and the
\* page's "next" link nx: the next item is decoded and yielded; after the
\* last item the link is followed, or the stream ends when there is none.
Continue(its, nx, pf, fs) ==
    IF its # <<>>
    THEN /\ spc' = "ready"
         /\ pag' = [items |-> Tail(its), next |-> nx]
         /\ Yield(ItemElement(Head(its)), pf, fs)
    ELSE IF nx = NoLink
    THEN /\ spc' = "ended"
         /\ pag' = NoPage
         /\ pfetch' = pf
         /\ fetches' = fs
         /\ UNCHANGED <<current_url, yielded, overflow>>
    ELSE IF NextUrl(Entrypoint, nx).ok
    THEN IssueFetch(NextUrl(Entrypoint, nx).url, pf, fs)
    ELSE /\ spc' = "failed"
         /\ pag' = NoPage
         /\ Yield(ErrElement(NextUrl(Entrypoint, nx).err), pf, fs)

\* The consumer polls the stream for its next element.
Pull ==
    /\ spc \in {"new", "ready", "failed"}
    /\ IF spc = "new" THEN IssueFetch(current_url, pfetch, fetches)
       ELSE IF spc = "ready" THEN Continue(pag.items, pag.next, pfetch, fetches)
       ELSE /\ spc' = "ended"
            /\ UNCHANGED <<current_url, pag, pfetch, fetches, yielded, overflow>>
    /\ UNCHANGED <<cacheVars, callVars, boxVars, otherVars>>

\* Faulty variant of PageResponse: a failed page ends the stream without an
\* error element.
PageResponseSwallow(f, w) ==
    LET out == GetJsonMap("Paginated", ClientGet(w))
        pf == pfetch \ {f}
        fs == IF f.id = 0 THEN fetches ELSE [fetches EXCEPT ![f.id].got = w]
    IN  /\ f \in pfetch
        /\ spc = "fetching"
        /\ IF out.ok
           THEN Continue(out.val.items, out.val.next, pf, fs)
           ELSE /\ spc' = "ended"
                /\ pag' = NoPage
                /\ pfetch' = pf
                /\ fetches' = fs
                /\ UNCHANGED <<current_url, yielded, overflow>>
        /\ UNCHANGED <<cacheVars, callVars, boxVars, otherVars>>
\* Faulty variant of PageResponse: when a page with items and a "next" link
\* arrives, the request for the next page is issued at once.
PageResponsePrefetch(f, w) ==
    LET out == GetJsonMap("Paginated", ClientGet(w))
        pf == pfetch \ {f}
        fs == IF f.id = 0 THEN fetches ELSE [fetches EXCEPT ![f.id].got = w]
    IN  /\ f \in pfetch
        /\ spc = "fetching"
        /\ IF out.ok /\ out.val.items # <<>> /\ out.val.next # NoLink
              /\ NextUrl(Entrypoint, out.val.next).ok /\ ~overflow /\ Len(fs) < MaxPages
           THEN /\ spc' = "ready"
                /\ pag' = [items |-> Tail(out.val.items), next |-> out.val.next]
                /\ yielded' = Append(yielded, ItemElement(Head(out.val.items)))
                /\ pfetch' = pf \cup {[id |-> Len(fs) + 1,
                                        url |-> NextUrl(Entrypoint, out.val.next).url]}
                /\ fetches' = Append(fs, [url |-> NextUrl(Entrypoint, out.val.next).url,
                                          got |-> NoOutcome])
                /\ UNCHANGED <<current_url, overflow>>
           ELSE IF out.ok
           THEN Continue(out.val.items, out.val.next, pf, fs)
           ELSE /\ spc' = "failed"
                /\ pag' = NoPage
                /\ Yield(ErrElement(out.err), pf, fs)
        /\ UNCHANGED <<cacheVars, callVars, boxVars, otherVars>>
\* The transport ends page request f with outcome w and get_json_map
\* returns: an error is yielded by `?` and the stream returns at its next
\* poll; a page is bound to pag and the stream runs on.
PageResponse(f, w) ==
    LET out == GetJsonMap("Paginated", ClientGet(w))
        pf == pfetch \ {f}
        fs == IF f.id = 0 THEN fetches ELSE [fetches EXCEPT ![f.id].got = w]
    IN  /\ f \in pfetch
        /\ spc = "fetching"
        /\ IF out.ok
           THEN Continue(out.val.items, out.val.next, pf, fs)
           ELSE /\ spc' = "failed"
                /\ pag' = NoPage
                /\ Yield(ErrElement(out.err), pf, fs)
        /\ UNCHANGED <<cacheVars, callVars, boxVars, otherVars>>

\* The consumer drops the stream; a get_json_map future it awaits is
\* dropped with it.
Drop ==
    /\ spc \notin {"ended", "dropped"}
    /\ spc' = "dropped"
    /\ pag' = NoPage
    /\ pfetch' = {}
    /\ fetches' = [i \in DOMAIN fetches |->
                     IF \E f \in pfetch : f.id = i
                     THEN [fetches[i] EXCEPT !.got = DroppedOutcome] ELSE fetches[i]]
    /\ UNCHANGED <<current_url, yielded, overflow>>
    /\ UNCHANGED <<cacheVars, callVars, boxVars, otherVars>>

PageOutcomes(f) == WireOutcomes(PageBodies(f.id) \cup DocBodies \cup {TextBody})

\* ------------------------------------------- single-shot operations

\* The task calls operation op: the Url is built, and the one transport
\* call of the operation is made and awaited; a path that does not join
\* makes the operation return before it.
Call(op, t, name) ==
    /\ Idle
    /\ IF UrlOf(op, name).ok
       THEN /\ cur' = [op |-> op, t |-> t, url |-> UrlOf(op, name).url]
            /\ sent' = Append(sent, [method |-> MethodOf(op), url |-> UrlOf(op, name).url])
            /\ UNCHANGED ret
       ELSE /\ ret' = [op |-> op, t |-> t, w |-> NoOutcome, g |-> NoTransportResult,
                       out |-> ErrOut(UrlOf(op, name).err)]
            /\ UNCHANGED <<cur, sent>>
    /\ UNCHANGED <<cacheVars, pagVars, boxVars, otherVars>>

\* The request of a transport method of Client ends with outcome w and the
\* method returns.
ClientRespond(w) ==
    /\ cur.op \in RawOps
    /\ ret' = [op |-> cur.op, t |-> cur.t, w |-> w, g |-> NoTransportResult,
               out |-> IF cur.op = "get"
                       THEN [ok |-> ClientGet(w).ok, val |-> ClientGet(w).body,
                             status |-> ClientGet(w).status, err |-> ClientGet(w).err]
                       ELSE ClientSend(w)]
    /\ cur' = NoCall
    /\ UNCHANGED sent
    /\ UNCHANGED <<cacheVars, pagVars, boxVars, otherVars>>

\* Faulty variant of ApiRespond: a failed transport call is made again.
ApiRespondRetry(g) ==
    /\ cur.op \in ApiOps
    /\ IF ~g.ok /\ Len(sent) < 2
       THEN /\ sent' = Append(sent, [method |-> MethodOf(cur.op), url |-> cur.url])
            /\ UNCHANGED <<cur, ret>>
       ELSE /\ ret' = [op |-> cur.op, t |-> cur.t, w |-> NoOutcome, g |-> g,
                       out |-> ApiOpResult(cur.op, cur.t, g)]
            /\ cur' = NoCall
            /\ UNCHANGED sent
    /\ UNCHANGED <<cacheVars, pagVars, boxVars, otherVars>>
\* The transport call of an operation of the Api trait returns g and the
\* operation runs to its end.
ApiRespond(g) ==
    /\ cur.op \in ApiOps
    /\ ret' = [op |-> cur.op, t |-> cur.t, w |-> NoOutcome, g |-> g,
               out |-> ApiOpResult(cur.op, cur.t, g)]
    /\ cur' = NoCall
    /\ UNCHANGED sent
    /\ UNCHANGED <<cacheVars, pagVars, boxVars, otherVars>>

ApiNext ==
    \/ GetPaginated(HeadUrl)
    \/ \E op \in RawOps \cup ApiOps :
         \E t \in (IF op \in JsonOps THEN Types ELSE {"T1"}), name \in FileNames :
            Call(op, t, name)
    \/ \E w \in WireOutcomes(CallBodies) : ClientRespond(w)
    \/ \E g \in TransportResults : ApiRespond(g)
    \/ Pull
    \/ \E f \in pfetch : \E w \in PageOutcomes(f) : PageResponse(f, w)
    \/ Drop

ApiSpec == Init /\ [][ApiNext]_vars

\* The consumer keeps pulling, and every request the transport has sent
\* ends with a response or an error.
ApiFairness ==
    /\ WF_vars(Pull)
    /\ WF_vars(\E f \in pfetch : \E w \in PageOutcomes(f) : PageResponse(f, w))

ApiLiveSpec == Init /\ [][ApiNext]_vars /\ ApiFairness

\* ---------------------------------------------------- containers: actions

\* A container of kind k is built from value v.
Wrap(k, v) ==
    /\ built = 0
    /\ built' = v
    /\ hnd' = [hnd EXCEPT ![1] = IF k = "Inner" THEN InnerNew(v) ELSE ArcHandle]
    /\ arc' = IF k = "Arc" THEN [val |-> v, strong |-> 1] ELSE NoArc
    /\ UNCHANGED <<cacheVars, pagVars, callVars, otherVars>>

\* Clone::clone of container h into h2: a copy of an Inner, one more handle
\* on the allocation of an Arc.
CloneHandle(h, h2) ==
    /\ hnd[h].state = "live"
    /\ hnd[h2].state = "none"
    /\ \A j \in Handles : j < h2 => hnd[j].state # "none"
    /\ hnd' = [hnd EXCEPT ![h2] = IF hnd[h].kind = "Inner" THEN InnerNew(hnd[h].val)
                                  ELSE ArcHandle]
    /\ arc' = IF hnd[h].kind = "Arc" THEN [arc EXCEPT !.strong = arc.strong + 1] ELSE arc
    /\ UNCHANGED built
    /\ UNCHANGED <<cacheVars, pagVars, callVars, otherVars>>

\* container.into_inner(): the container is consumed and the T returned.
IntoInner(h) ==
    /\ hnd[h].state = "live"
    /\ IF hnd[h].kind = "Inner"
       THEN /\ hnd' = [hnd EXCEPT ![h] = [state |-> "moved", kind |-> "Inner", val |-> 0,
                                          got |-> InnerIntoInner(hnd[h])]]
            /\ UNCHANGED arc
       ELSE /\ hnd' = [hnd EXCEPT ![h] = [state |-> "moved", kind |-> "Arc", val |-> 0,
                                          got |-> UnwrapOrClone(arc).val]]
            /\ arc' = UnwrapOrClone(arc).arc
    /\ UNCHANGED built
    /\ UNCHANGED <<cacheVars, pagVars, callVars, otherVars>>

\* The container goes out of scope.
DropHandle(h) ==
    /\ hnd[h].state = "live"
    /\ hnd' = [hnd EXCEPT ![h] = [state |-> "dropped", kind |-> hnd[h].kind, val |-> 0,
                                  got |-> 0]]
    /\ arc' = IF hnd[h].kind = "Inner" THEN arc
              ELSE IF arc.strong = 1 THEN NoArc
              ELSE [arc EXCEPT !.strong = arc.strong - 1]
    /\ UNCHANGED built
    /\ UNCHANGED <<cacheVars, pagVars, callVars, otherVars>>

BoxNext ==
    \/ \E k \in Kinds, v \in Values : Wrap(k, v)
    \/ \E h, h2 \in Handles : CloneHandle(h, h2)
    \/ \E h \in Handles : IntoInner(h)
    \/ \E h \in Handles : DropHandle(h)

BoxSpec == Init /\ [][BoxNext]_vars

Next ==
    \/ \E c \in Callers, u \in URLs, t \in Types : Get(c, u, t)
    \/ \E f \in inflight, r \in GetBodyResults : Resolve(f, r)
    \/ \E c \in Callers : Cancel(c)
    \/ \E c \in Callers : Retry(c)
    \/ \E k \in URLs : Evict(k)

Spec == Init /\ [][Next]_vars

\* The executor polls a woken caller again, and every request the inner
\* client has sent ends with a response or a transport error.
Fairness ==
    /\ \A c \in Callers : WF_vars(Retry(c))
    /\ \A u \in URLs :
         WF_vars(\E f \in inflight, r \in GetBodyResults : f.url = u /\ Resolve(f, r))

LiveSpec == Init /\ [][Next]_vars /\ Fairness

\* --------------------------------------------- request context: actions

\* Client::from_config(config)
FromConfig(c) ==
    /\ config = NoConfig
    /\ config' = c
    /\ universal_headers' = <<>>
    /\ made' = [config |-> c, headers |-> <<>>]
    /\ UNCHANGED <<wrapped, reqs>>
    /\ UNCHANGED ctxFrame

\* client.with_universal_header(key, value)
WithUniversalHeader(h) ==
    /\ config # NoConfig /\ ~wrapped
    /\ Len(universal_headers) < MaxHeaders
    /\ universal_headers' = Append(universal_headers, h)
    /\ made' = [made EXCEPT !.headers = Append(made.headers, h)]
    /\ UNCHANGED <<config, wrapped, reqs>>
    /\ UNCHANGED ctxFrame

\* *client.config_mut() = c, on the client or through the CachingClient.
ConfigMut(c) ==
    /\ config # NoConfig /\ c # config
    /\ config' = c
    /\ made' = [made EXCEPT !.config = c]
    /\ UNCHANGED <<universal_headers, wrapped, reqs>>
    /\ UNCHANGED ctxFrame

\* CachingClient { inner: client, cache }
WrapClient ==
    /\ config # NoConfig /\ ~wrapped
    /\ wrapped' = TRUE
    /\ UNCHANGED <<config, universal_headers, reqs, made>>
    /\ UNCHANGED ctxFrame

\* Faulty variant of ClientSendRequest: the headers are moved out of the
\* client into the request.
ClientSendRequestTakeHeaders(m) ==
    /\ config # NoConfig /\ ~wrapped
    /\ Len(reqs) < MaxReqs
    /\ reqs' = Append(reqs, ClientRequest(m, config, universal_headers))
    /\ universal_headers' = <<>>
    /\ UNCHANGED <<config, wrapped, made>>
    /\ UNCHANGED ctxFrame
\* Client::get / post / delete (&self) build and send their request.
ClientSendRequest(m) ==
    /\ config # NoConfig /\ ~wrapped
    /\ Len(reqs) < MaxReqs
    /\ reqs' = Append(reqs, ClientRequest(m, config, universal_headers))
    /\ UNCHANGED <<config, universal_headers, wrapped, made>>
    /\ UNCHANGED ctxFrame

\* CachingClient::post (&self) builds and sends its request.
CachingPost ==
    /\ wrapped
    /\ Len(reqs) < MaxReqs
    /\ reqs' = Append(reqs, CachingPostRequest(config, universal_headers))
    /\ UNCHANGED <<config, universal_headers, wrapped, made>>
    /\ UNCHANGED ctxFrame

\* CachingClient::get (&self) on a miss: the init future sends the GET of
\* the inner client.  A hit sends nothing and changes nothing here.
CachingGetMiss ==
    /\ wrapped
    /\ Len(reqs) < MaxReqs
    /\ reqs' = Append(reqs, GetBodyRequest(config, universal_headers))
    /\ UNCHANGED <<config, universal_headers, wrapped, made>>
    /\ UNCHANGED ctxFrame

CtxNext ==
    \/ \E c \in Configs : FromConfig(c)
    \/ \E h \in Headers : WithUniversalHeader(h)
    \/ \E c \in Configs : ConfigMut(c)
    \/ WrapClient
    \/ \E m \in Methods : ClientSendRequest(m)
    \/ CachingPost
    \/ CachingGetMiss

CtxSpec == Init /\ [][CtxNext]_vars

\* ----------------------------------- traversal through the cache: actions

\* get_paginated(head_url) on the CachingClient, polled for the first time:
\* the stream calls get::<Paginated>(current_url) for the head.
TravStart(c) ==
    /\ pc[c] = "idle" /\ trav[c].state = "none"
    /\ \A d \in Callers : d < c => pc[d] # "idle"
    /\ url' = [url EXCEPT ![c] = TravHead]
    /\ typ' = [typ EXCEPT ![c] = PageType]
    /\ TryGetWith(c, TravHead, PageType)
    /\ trav' = [trav EXCEPT ![c] =
                  [state |-> "run", elems |-> <<>>, pages |-> <<>>,
                   after |-> {d \in Traversers : trav[d].state = "ended"}]]
    /\ UNCHANGED evicted
    /\ UNCHANGED travFrame

\* The get of the stream's current page has returned to traversal c: an Err
\* is yielded and ends the stream; the items of a page are yielded in order
\* and the stream ends, or calls get for the "next" link of the page.
TravPage(c) ==
    LET r == res[c]
        page == PageOf(url[c], r.val)
        seen == Append(trav[c].pages, [url |-> url[c], hit |-> r.hit, from |-> r.from])
    IN  /\ pc[c] = "done" /\ trav[c].state = "run"
        /\ IF r.kind # "ok"
           THEN /\ trav' = [trav EXCEPT ![c].state = "failed",
                                        ![c].elems = Append(@, <<"err", r.err>>),
                                        ![c].pages = seen]
                /\ UNCHANGED <<cache, pending, inflight, fetched, pc, url, typ, res>>
           ELSE IF page.next = NoLink
           THEN /\ trav' = [trav EXCEPT ![c].state = "ended",
                                        ![c].elems = @ \o page.items,
                                        ![c].pages = seen]
                /\ UNCHANGED <<cache, pending, inflight, fetched, pc, url, typ, res>>
           ELSE /\ trav' = [trav EXCEPT ![c].elems = @ \o page.items, ![c].pages = seen]
                /\ url' = [url EXCEPT ![c] = page.next]
                /\ TryGetWith(c, page.next, PageType)
                /\ UNCHANGED typ
        /\ UNCHANGED evicted
        /\ UNCHANGED travFrame

\* The steps of the traversals and of the cache under them; the drop of a
\* stream that awaits its get is the drop of that get (Cancel).
TravNext ==
    \/ \E c \in Traversers : TravStart(c)
    \/ \E c \in Traversers : TravPage(c)
    \/ \E f \in inflight, r \in GetBodyResults : Resolve(f, r)
    \/ \E c \in Traversers : Cancel(c)
    \/ \E c \in Traversers : Retry(c)
    \/ \E k \in URLs : Evict(k)

TravSpec == Init /\ [][TravNext]_vars

\* ------------------------------------------- collection reads: actions

\* A collection read is called: it builds its start Url and returns the
\* stream of get_paginated or of once_err, or panics.
QCall(q) ==
    /\ qs = "none"
    /\ qcall' = q
    /\ qstart' = StartOf(q)
    /\ qs' = IF StartOf(q).kind = "stream" THEN "new"
             ELSE IF StartOf(q).kind = "once_err" THEN "err_new"
             ELSE "panicked"
    /\ UNCHANGED <<qout, qreq>>
    /\ UNCHANGED queryFrame

\* The consumer polls the returned stream.  The stream of get_paginated
\* requests its head Url; the stream of once_err yields Err(self) and, at
\* the poll after it, ends.
QPoll ==
    /\ qs \in {"new", "err_new", "err_yielded"}
    /\ IF qs = "new"
       THEN /\ qreq' = Append(qreq, [url |-> qstart.url, query |-> qstart.query])
            /\ qs' = "fetching"
            /\ UNCHANGED qout
       ELSE IF qs = "err_new"
       THEN /\ qout' = Append(qout, [kind |-> "err", err |-> qstart.err])
            /\ qs' = "err_yielded"
            /\ UNCHANGED qreq
       ELSE /\ qs' = "ended"
            /\ UNCHANGED <<qout, qreq>>
    /\ UNCHANGED <<qcall, qstart>>
    /\ UNCHANGED queryFrame

QueryNext ==
    \/ \E q \in Queries : QCall(q)
    \/ QPoll

QuerySpec == Init /\ [][QueryNext]_vars

\* ------------------------------------------- override builder: actions

\* client.new_override()
OverrideNew ==
    /\ ob.state = "none"
    /\ ob' = NewOverrideBuilder
    /\ UNCHANGED sb
    /\ UNCHANGED overrideFrame

\* OverrideBuilder<NoName>::name
OverrideName(n) ==
    /\ ob.state = "NoName"
    /\ ob' = [ob EXCEPT !.state = "NoSatellite", !.name = n]
    /\ UNCHANGED sb
    /\ UNCHANGED overrideFrame

\* OverrideBuilder<NoSatellite>::satellite_id
OverrideSatelliteId(id) ==
    /\ ob.state = "NoSatellite"
    /\ ob' = [ob EXCEPT !.state = "NoConfig", !.satellite = OverrideSatelliteUrl(id),
                        !.sat_id = id]
    /\ UNCHANGED sb
    /\ UNCHANGED overrideFrame

\* OverrideBuilder<NoSatellite>::satellite_url
OverrideSatelliteByUrl(u) ==
    /\ ob.state = "NoSatellite"
    /\ ob' = [ob EXCEPT !.state = "NoConfig", !.satellite = UrlChecked(u)]
    /\ UNCHANGED sb
    /\ UNCHANGED overrideFrame

\* OverrideBuilder<NoConfig>::satellite_configuration_id
OverrideSatelliteConfigurationId(id) ==
    /\ ob.state = "NoConfig"
    /\ ob' = [ob EXCEPT !.state = "Override", !.configuration = OverrideConfigurationUrl(id),
                        !.properties = {}, !.cfg_id = id]
    /\ UNCHANGED sb
    /\ UNCHANGED overrideFrame

\* OverrideBuilder<NoConfig>::satellite_configuration_url
OverrideSatelliteConfigurationByUrl(u) ==
    /\ ob.state = "NoConfig"
    /\ ob' = [ob EXCEPT !.state = "Override", !.configuration = UrlChecked(u),
                        !.properties = {}]
    /\ UNCHANGED sb
    /\ UNCHANGED overrideFrame

\* OverrideBuilder<Override>::add_property
OverrideAddProperty(k, v) ==
    /\ ob.state = "Override"
    /\ ob' = [ob EXCEPT !.properties = MapInsert(@, k, v)]
    /\ UNCHANGED sb
    /\ UNCHANGED overrideFrame

\* client.new_satellite()
SatelliteNew ==
    /\ sb.state = "none"
    /\ sb' = NewSatelliteBuilder
    /\ UNCHANGED ob
    /\ UNCHANGED overrideFrame

\* SatelliteBuilder<NoName>::name
SatelliteName(n) ==
    /\ sb.state = "NoName"
    /\ sb' = [sb EXCEPT !.state = "NoConfig", !.name = n]
    /\ UNCHANGED ob
    /\ UNCHANGED overrideFrame

\* SatelliteBuilder<NoConfig>::satellite_configuration_id
SatelliteSatelliteConfigurationId(id) ==
    /\ sb.state = "NoConfig"
    /\ sb' = [sb EXCEPT !.state = "NoNorad", !.configuration = SatelliteConfigurationUrl(id),
                        !.cfg_id = id]
    /\ UNCHANGED ob
    /\ UNCHANGED overrideFrame

\* SatelliteBuilder<NoConfig>::satellite_configuration_url
SatelliteSatelliteConfigurationByUrl(u) ==
    /\ sb.state = "NoConfig"
    /\ sb' = [sb EXCEPT !.state = "NoNorad", !.configuration = UrlChecked(u)]
    /\ UNCHANGED ob
    /\ UNCHANGED overrideFrame

OverrideNext ==
    \/ OverrideNew
    \/ \E n \in BuilderNames : OverrideName(n)
    \/ \E id \in BuilderIds : OverrideSatelliteId(id)
    \/ \E u \in BuilderUrls : OverrideSatelliteByUrl(u)
    \/ \E id \in BuilderIds : OverrideSatelliteConfigurationId(id)
    \/ \E u \in BuilderUrls : OverrideSatelliteConfigurationByUrl(u)
    \/ \E k \in PropKeys, v \in PropValues : OverrideAddProperty(k, v)
    \/ SatelliteNew
    \/ \E n \in BuilderNames : SatelliteName(n)
    \/ \E id \in BuilderIds : SatelliteSatelliteConfigurationId(id)
    \/ \E u \in BuilderUrls : SatelliteSatelliteConfigurationByUrl(u)

OverrideSpec == Init /\ [][OverrideNext]_vars

\* --------------------------------------- task request builder: actions

\* client.new_task_request()
TaskNew ==
    /\ tb.state = "none"
    /\ tb' = NewTaskBuilder
    /\ UNCHANGED tcall
    /\ UNCHANGED taskFrame

\* TaskRequestBuilder<NoType>::exact_task
TaskExactTask ==
    /\ tb.state = "NoType"
    /\ tb' = [tb EXCEPT !.state = "NoTime", !.kind = ExactTaskKind]
    /\ tcall' = Append(tcall, "exact_task")
    /\ UNCHANGED taskFrame

\* TaskRequestBuilder<NoType>::flex_task (and flex_task_after, _around, _before)
TaskFlexTask(kind, hours_of_flex) ==
    /\ tb.state = "NoType"
    /\ tb' = [tb EXCEPT !.state = "NoTime", !.kind = FlexTaskKind(kind, hours_of_flex)]
    /\ tcall' = Append(tcall, "flex_task")
    /\ UNCHANGED taskFrame

\* TaskRequestBuilder<NoType>::test_task
TaskTestTask(test_file) ==
    /\ tb.state = "NoType"
    /\ tb' = [tb EXCEPT !.state = "NoTime", !.kind = TestTaskKind(test_file)]
    /\ tcall' = Append(tcall, "test_task")
    /\ UNCHANGED taskFrame

\* TaskRequestBuilder<NoTime<T>>::target_time_utc
TaskTargetTimeUtc(time) ==
    /\ tb.state = "NoTime"
    /\ tb' = [tb EXCEPT !.state = "NoDuration", !.time = time]
    /\ tcall' = Append(tcall, "target_time_utc")
    /\ UNCHANGED taskFrame

\* TaskRequestBuilder<NoDuration<T>>::task_duration
TaskDuration(seconds) ==
    /\ tb.state = "NoDuration"
    /\ tb' = [tb EXCEPT !.state = "NoSatellite", !.duration = seconds]
    /\ tcall' = Append(tcall, "task_duration")
    /\ UNCHANGED taskFrame

\* TaskRequestBuilder<NoSatellite<T>>::satellite_id
TaskSatelliteId(id) ==
    /\ tb.state = "NoSatellite"
    /\ tb' = [tb EXCEPT !.state = "NoSite",
                        !.satellite = UrlUnchecked(PathToUrl("satellites/" \o ToString(id)))]
    /\ tcall' = Append(tcall, "satellite_id")
    /\ UNCHANGED taskFrame

\* TaskRequestBuilder<NoSatellite<T>>::satellite_url
TaskSatelliteUrl(u) ==
    /\ tb.state = "NoSatellite"
    /\ tb' = [tb EXCEPT !.state = "NoSite", !.satellite = UrlChecked(u)]
    /\ tcall' = Append(tcall, "satellite_url")
    /\ UNCHANGED taskFrame

\* TaskRequestBuilder<NoSite<T>>::site_id
TaskSiteId(id) ==
    /\ tb.state = "NoSite"
    /\ tb' = [tb EXCEPT !.state = "NoConfig",
                        !.site = UrlUnchecked(PathToUrl("sites/" \o ToString(id)))]
    /\ tcall' = Append(tcall, "site_id")
    /\ UNCHANGED taskFrame

\* TaskRequestBuilder<NoSite<T>>::site_url
TaskSiteUrl(u) ==
    /\ tb.state = "NoSite"
    /\ tb' = [tb EXCEPT !.state = "NoConfig", !.site = UrlChecked(u)]
    /\ tcall' = Append(tcall, "site_url")
    /\ UNCHANGED taskFrame

\* TaskRequestBuilder<NoConfig<T>>::site_configuration_id
TaskSiteConfigurationId(id) ==
    /\ tb.state = "NoConfig"
    /\ tb' = [tb EXCEPT !.state = "NoBand",
                        !.configuration =
                            UrlUnchecked(PathToUrl("configurations/" \o ToString(id)))]
    /\ tcall' = Append(tcall, "site_configuration_id")
    /\ UNCHANGED taskFrame

\* TaskRequestBuilder<NoConfig<T>>::site_configuration_url
TaskSiteConfigurationUrl(u) ==
    /\ tb.state = "NoConfig"
    /\ tb' = [tb EXCEPT !.state = "NoBand", !.configuration = UrlChecked(u)]
    /\ tcall' = Append(tcall, "site_configuration_url")
    /\ UNCHANGED taskFrame

\* TaskRequestBuilder<NoBand<T>>::band_ids
TaskBandIds(ids) ==
    /\ tb.state = "NoBand"
    /\ tb' = [tb EXCEPT
                !.state = "TaskRequest",
                !.request =
                    BandResults(tb, [i \in DOMAIN ids |->
                        UrlUnchecked(PathToUrl("satellite_bands/" \o ToString(ids[i])))])]
    /\ tcall' = Append(tcall, "band_ids")
    /\ UNCHANGED taskFrame

\* TaskRequestBuilder<NoBand<T>>::band_urls
TaskBandUrls(urls) ==
    /\ tb.state = "NoBand"
    /\ tb' = [tb EXCEPT
                !.state = "TaskRequest",
                !.request = BandResults(tb, [i \in DOMAIN urls |-> UrlChecked(urls[i])])]
    /\ tcall' = Append(tcall, "band_urls")
    /\ UNCHANGED taskFrame

\* TaskRequestBuilder<TaskRequest>::task_minimum_duration
TaskMinimumDuration(duration) ==
    /\ tb.state = "TaskRequest"
    /\ SettersCalled < MaxSetters
    /\ tb' = [tb EXCEPT !.request.minimum_duration = Some(duration)]
    /\ tcall' = Append(tcall, "task_minimum_duration")
    /\ UNCHANGED taskFrame

\* TaskRequestBuilder<TaskRequest>::override_id
TaskOverrideId(id) ==
    /\ tb.state = "TaskRequest"
    /\ SettersCalled < MaxSetters
    /\ tb' = [tb EXCEPT !.request.with_override =
                            Some(UrlUnchecked(PathToUrl("overrides/" \o ToString(id))))]
    /\ tcall' = Append(tcall, "override_id")
    /\ UNCHANGED taskFrame

\* TaskRequestBuilder<TaskRequest>::override_url
TaskOverrideUrl(u) ==
    /\ tb.state = "TaskRequest"
    /\ SettersCalled < MaxSetters
    /\ tb' = [tb EXCEPT !.request.with_override = Some(UrlChecked(u))]
    /\ tcall' = Append(tcall, "override_url")
    /\ UNCHANGED taskFrame

TaskNext ==
    \/ TaskNew
    \/ TaskExactTask
    \/ \E k \in FlexTaskKinds, h \in FlexHours : TaskFlexTask(k, h)
    \/ \E f \in TestFiles : TaskTestTask(f)
    \/ \E t \in TaskTimes : TaskTargetTimeUtc(t)
    \/ \E d \in TaskDurations : TaskDuration(d)
    \/ \E id \in BuilderIds : TaskSatelliteId(id)
    \/ \E u \in BuilderUrls : TaskSatelliteUrl(u)
    \/ \E id \in BuilderIds : TaskSiteId(id)
    \/ \E u \in BuilderUrls : TaskSiteUrl(u)
    \/ \E id \in BuilderIds : TaskSiteConfigurationId(id)
    \/ \E u \in BuilderUrls : TaskSiteConfigurationUrl(u)
    \/ \E ids \in BandIds : TaskBandIds(ids)
    \/ \E urls \in BandUrls : TaskBandUrls(urls)
    \/ \E d \in MinimumDurations : TaskMinimumDuration(d)
    \/ \E id \in BuilderIds : TaskOverrideId(id)
    \/ \E u \in BuilderUrls : TaskOverrideUrl(u)

TaskSpec == Init /\ [][TaskNext]_vars

\* --------------------------------------------- HATEOAS helpers: actions

\* get_item, get_embedded, get_content up to the await of get_json_map: the
\* link is looked up; without it the helper returns at once.
HelperCall(helper, reference, links, t) ==
    /\ hcall.state = "none"
    /\ IF LinkOf(reference, links).ok
       THEN /\ hcall' = [state |-> "awaiting", helper |-> helper, reference |-> reference,
                         links |-> links, t |-> t]
            /\ hgets' = Append(hgets, LinkOf(reference, links).url)
            /\ UNCHANGED hret
       ELSE /\ hcall' = [state |-> "done", helper |-> helper, reference |-> reference,
                         links |-> links, t |-> t]
            /\ hret' = [ok |-> FALSE, val |-> NoBody, part |-> "",
                        err |-> LinkOf(reference, links).err]
            /\ UNCHANGED hgets
    /\ UNCHANGED linkFrame

\* get_json_map returns: its error is the helper's, its value is unwrapped.
HelperReturn(g) ==
    /\ hcall.state = "awaiting"
    /\ hcall' = [hcall EXCEPT !.state = "done"]
    /\ hret' = IF GetJsonMap(hcall.t, g).ok
               THEN [ok |-> TRUE, val |-> GetJsonMap(hcall.t, g).val,
                     part |-> PartOf(hcall.helper), err |-> NoError]
               ELSE [ok |-> FALSE, val |-> NoBody, part |-> "",
                     err |-> GetJsonMap(hcall.t, g).err]
    /\ UNCHANGED hgets
    /\ UNCHANGED linkFrame

LinkNext ==
    \/ \E helper \in Helpers, reference \in Relations, links \in LinkMaps, t \in Types :
          HelperCall(helper, reference, links, t)
    \/ \E g \in TransportResults : HelperReturn(g)

LinkSpec == Init /\ [][LinkNext]_vars

\* ---------------------------------------- POST through the cache: actions

\* Faulty variant of PostSend: the entry of the Url posted to is invalidated.
PostSendInvalidate(u, t) ==
    /\ post.state = "none"
    /\ post' = [state |-> "sent", url |-> u, t |-> t, had |-> cache[CacheKey(u)],
                out |-> NoResult]
    /\ cache' = [cache EXCEPT ![CacheKey(u)] = Nil]
    /\ UNCHANGED <<pending, inflight, fetched, evicted, pc, url, typ, res>>
    /\ UNCHANGED postFrame
\* CachingClient::post::<S, T>(url, msg) up to the await of send: the
\* request is built on the inner reqwest client and sent.  One POST is
\* issued, at any point of the gets.
PostSend(u, t) ==
    /\ post.state = "none"
    /\ post' = [state |-> "sent", url |-> u, t |-> t, had |-> cache[CacheKey(u)],
                out |-> NoResult]
    /\ UNCHANGED cacheVars
    /\ UNCHANGED postFrame

\* send and text return r; post returns.
PostReturn(r) ==
    /\ post.state = "sent"
    /\ post' = [post EXCEPT !.state = "returned", !.out = PostResult(post.t, r)]
    /\ UNCHANGED cacheVars
    /\ UNCHANGED postFrame

PostNext ==
    \/ \E c \in Getters, u \in URLs, t \in Types : Get(c, u, t)
    \/ \E f \in inflight, r \in GetBodyResults : Resolve(f, r)
    \/ \E c \in Getters : Cancel(c)
    \/ \E c \in Getters : Retry(c)
    \/ \E k \in URLs : Evict(k)
    \/ \E u \in URLs, t \in Types : PostSend(u, t)
    \/ \E r \in GetBodyResults : PostReturn(r)

PostSpec == Init /\ [][PostNext]_vars

\* ---------------------------------------------------------------- claims

\* Requests for URL u in the history, by their state.
FetchesOf(u) == {i \in DOMAIN fetched : fetched[i].url = u}
Live(i) == fetched[i].got = NoReply
GotJson(i) == fetched[i].got.ok /\ FromStr(fetched[i].got.body).ok
GotFailure(i) == fetched[i].got \in GetBodyResults /\ ~GotJson(i)

\* Caller c enters try_get_with in this step (its first call or a retry).
Enters(c) == pc[c] \in {"idle", "retry"} /\ pc'[c] \in {"waiting", "done"}
\* Key k is Absent after this step.
AbsentAfter(k) == cache'[k] = Nil /\ k \notin pending'
\* Caller c returns from get in this step.
Returns(c) == pc[c] # "done" /\ pc'[c] = "done"

\* C1: single-flight dedup.  While callers wait on a URL exactly one request
\* for it is outstanding; for a key that was never evicted at most one
\* request is outstanding or has delivered JSON (every other request of that
\* URL failed or was dropped with its caller); and every caller answered by
\* a request that delivered JSON receives that same value, successfully
\* whenever the value has the shape of the type it asked for.
C1_SingleFlight ==
    /\ \A u \in URLs :
         WaitingOn(CacheKey(u)) # {} =>
            Cardinality({i \in FetchesOf(u) : Live(i)}) = 1
    /\ \A u \in URLs \ evicted :
         Cardinality({i \in FetchesOf(u) : Live(i) \/ GotJson(i)}) <= 1
    /\ \A c \in Callers :
         (pc[c] = "done" /\ ~res[c].hit /\ GotJson(res[c].from)) =>
            LET v == FromStr(fetched[res[c].from].got.body).val IN
            /\ fetched[res[c].from].url = url[c]
            /\ DecodesInto(typ[c], v) => (res[c].kind = "ok" /\ res[c].val = v)
    /\ \A c, d \in Callers :
         (pc[c] = "done" /\ pc[d] = "done" /\ ~res[c].hit /\ ~res[d].hit
            /\ res[c].from = res[d].from /\ typ[c] = typ[d]) => res[c] = res[d]

\* Every caller called the same URL, one request was issued, and all of
\* them returned the same successful result of it.
C1_Witness ==
    /\ Len(fetched) = 1
    /\ \A c \in Callers : pc[c] = "done" /\ ~res[c].hit /\ res[c].kind = "ok"
    /\ \A c, d \in Callers : res[c] = res[d]

\* C2: at most one init future is in flight per key in every reachable
\* state, and a caller that enters try_get_with while the key is Pending
\* waits on the existing one: the step issues no request.
C2_OneInFlightPerKey ==
    /\ [](\A k \in URLs : Cardinality({f \in inflight : CacheKey(f.url) = k}) <= 1)
    /\ [][\A c \in Callers :
            (Enters(c) /\ Pending(CacheKey(url'[c]))) =>
               /\ pc'[c] = "waiting"
               /\ inflight' = inflight
               /\ fetched' = fetched
               /\ pending' = pending]_vars

\* A caller waits on a request that another caller started.
C2_Witness ==
    \E c \in Callers, f \in inflight :
        pc[c] = "waiting" /\ url[c] = f.url /\ f.by # c

\* C3: when the shared request fails, every caller it answers receives the
\* same error: Response with the transport error's message when get_body
\* failed, Deserialization with the parser's message when the body is not
\* JSON; none of them receives a success.
C3_SharedError ==
    /\ \A c \in Callers :
         (pc[c] = "done" /\ ~res[c].hit /\ GotFailure(res[c].from)) =>
            LET g == fetched[res[c].from].got IN
            /\ res[c].kind = "err"
            /\ res[c].err = <<IF g.ok THEN "Deserialization" ELSE "Response", g.body>>
    /\ \A c, d \in Callers :
         (pc[c] = "done" /\ pc[d] = "done" /\ ~res[c].hit /\ ~res[d].hit
            /\ res[c].from = res[d].from /\ GotFailure(res[c].from)) => res[c] = res[d]

\* Two callers were answered by the same failed request.
C3_Witness ==
    \E c, d \in Callers :
        /\ c # d /\ pc[c] = "done" /\ pc[d] = "done"
        /\ ~res[c].hit /\ ~res[d].hit /\ res[c].from = res[d].from
        /\ GotFailure(res[c].from) /\ res[c].kind = "err" /\ res[d].kind = "err"

\* C4: error non-poisoning.  Whenever a get returns an error, the key of its
\* URL is Absent afterwards, and the error is that of a request that was
\* still outstanding when the step began (never one resolved earlier).
C4_NonPoisoning ==
    [][\A c \in Callers :
         (Returns(c) /\ res'[c].kind = "err") =>
            /\ AbsentAfter(CacheKey(url'[c]))
            /\ \E f \in inflight : f.id = res'[c].from /\ f.url = url'[c]]_vars

\* C5: a get that enters try_get_with while the key is Populated returns in
\* that step with the stored value (decoded into its type), and the step
\* issues no request and leaves the cache as it is.
C5_ServedFromCache ==
    [][\A c \in Callers :
         (Enters(c) /\ Populated(CacheKey(url'[c]))) =>
            LET e == cache[CacheKey(url'[c])] IN
            /\ pc'[c] = "done"
            /\ res'[c].hit /\ res'[c].from = e.from
            /\ IF DecodesInto(typ'[c], e.val)
               THEN res'[c].kind = "ok" /\ res'[c].val = e.val
               ELSE res'[c].kind = "err"
            /\ fetched' = fetched
            /\ inflight' = inflight
            /\ cache' = cache]_vars

\* A caller was answered from the cache with the value an earlier request
\* of its URL had delivered.
C5_Witness ==
    \E c \in Callers :
        /\ pc[c] = "done" /\ res[c].hit /\ res[c].kind = "ok"
        /\ fetched[res[c].from].url = url[c]
        /\ Len(fetched) = 1

\* C6: the client has an invalidate_all operation: whenever an entry is
\* Populated and a task can still call the client, a call is possible after
\* which every key is Absent.  (The calls of the client are those of
\* `impl FreedomApi for CachingClient`; eviction is the library's, not a
\* call.)
C6_ClientCall == \E c \in Callers, u \in URLs, t \in Types : Get(c, u, t)
C6_InvalidateAll ==
    ((\E k \in URLs : Populated(k)) /\ (\E c \in Callers : pc[c] = "idle")) =>
        ENABLED (C6_ClientCall /\ \A k \in URLs : AbsentAfter(k))

\* C8: per-key state machine.  A key is never Populated while a waiter is
\* registered for it, and in every step each key keeps its state or makes
\* one of these moves: Absent -> Pending when a caller enters try_get_with
\* and a request for the key is issued; Pending -> Populated when that
\* request delivers JSON; Pending -> Absent when it fails or is dropped with
\* its caller; Populated -> Absent when the entry is evicted.
C8_Move(k) ==
    LET s == KeyState(k)
        t == KeyState(k)'
    IN  \/ t = s
        \/ /\ s = "Absent" /\ t = "Pending"
           /\ Len(fetched') = Len(fetched) + 1
           /\ CacheKey(fetched'[Len(fetched')].url) = k
        \/ /\ s = "Pending" /\ t = "Populated"
           /\ \E f \in inflight :
                /\ CacheKey(f.url) = k /\ f \notin inflight'
                /\ fetched'[f.id].got.ok /\ FromStr(fetched'[f.id].got.body).ok
                /\ cache'[k].val = FromStr(fetched'[f.id].got.body).val
        \/ /\ s = "Pending" /\ t = "Absent"
           /\ \E f \in inflight :
                /\ CacheKey(f.url) = k /\ f \notin inflight'
                /\ ~(fetched'[f.id].got.ok /\ FromStr(fetched'[f.id].got.body).ok)
        \/ /\ s = "Populated" /\ t = "Absent"
           /\ k \in evicted'
C8_KeyStateMachine ==
    /\ [](\A k \in URLs : k \in pending => cache[k] = Nil)
    /\ [][\A k \in URLs : C8_Move(k)]_vars

\* One key has gone Absent -> Pending -> Absent (failed request) -> Pending
\* -> Populated -> Absent (evicted).
C8_Witness ==
    \E k \in URLs :
        /\ Absent(k) /\ k \in evicted
        /\ \E i, j \in FetchesOf(k) : i < j /\ GotFailure(i) /\ GotJson(j)

\* C10: cache keys are exact URLs.  A caller is only ever answered, from the
\* cache or by a shared request, with the response of a request for exactly
\* the URL it passed, and it only ever waits on a request for exactly that
\* URL; a key is Populated only with the response of a request for that URL.
C10_ExactUrlKeys ==
    /\ \A c \in Callers :
         pc[c] = "done" => fetched[res[c].from].url = url[c]
    /\ \A c \in Callers :
         pc[c] = "waiting" => \E f \in inflight : f.url = url[c]
    /\ \A k \in URLs :
         Populated(k) => fetched[cache[k].from].url = k

\* While the entry for one spelling of a resource is Populated, a caller of
\* the other spelling waits on a request of its own.
C10_Witness ==
    \E c \in Callers, k \in URLs :
        /\ Populated(k) /\ pc[c] = "waiting"
        /\ Resource(url[c]) = Resource(k) /\ url[c] # k
        /\ \E f \in inflight : f.url = url[c] /\ f.by = c

\* C9: dropping a caller does not strand the others.  Every caller that is
\* waiting on a key (or was woken by the drop of the caller evaluating the
\* request) eventually returns from get, unless it is dropped itself, and
\* no key stays Pending: since every caller calls once, eventually no
\* caller is waiting and no key is Pending, for good.  What a caller
\* returns is the outcome of a request for its own URL that was answered.
C9_CancelDoesNotStrand ==
    /\ <>[](pending = {} /\ \A c \in Callers : pc[c] \notin {"waiting", "retry"})
    /\ [](\A c \in Callers :
            pc[c] = "done" =>
               /\ fetched[res[c].from].url = url[c]
               /\ fetched[res[c].from].got \in GetBodyResults)

\* The caller that started the first request was dropped with it, and a
\* caller that had been waiting on it returned the outcome of a second
\* request for the same URL.
C9_Witness ==
    \E c, d \in Callers :
        /\ pc[c] = "cancelled" /\ pc[d] = "done" /\ url[c] = url[d]
        /\ Len(fetched) = 2 /\ fetched[1].got = Dropped /\ fetched[1].url = url[c]
        /\ ~res[d].hit /\ res[d].from = 2 /\ d > c

\* ------------------------------------------------ claims: get_paginated

\* Page request i was answered / was answered with a page (a 2xx response
\* whose body is a paginated collection) / failed.
Answered(i) == fetches[i].got \notin {NoOutcome, DroppedOutcome}
IsPage(w) == w.kind = "answer" /\ IsSuccess(w.status) /\ w.body.kind = "page"
Served(i) == IsPage(fetches[i].got)
FailedPage(i) == Answered(i) /\ ~Served(i)
RawItems(i) == fetches[i].got.body.items
NextOf(i) == fetches[i].got.body.next

\* The raw items of the pages served by requests 1..n, concatenated.
RECURSIVE RawUpTo(_)
RawUpTo(n) ==
    IF n = 0 THEN <<>>
    ELSE RawUpTo(n - 1) \o (IF Served(n) THEN RawItems(n) ELSE <<>>)
AllRaw == RawUpTo(Len(fetches))

\* A link that has a host or resolves against the entrypoint.
Resolvable(l) == l[1] # "" \/ Join(Entrypoint, l).ok

\* Every page request so far was answered with a page whose items all
\* decode and whose "next" link, if any, resolves.
GoodChain ==
    \A i \in DOMAIN fetches :
        /\ Served(i)
        /\ \A j \in DOMAIN RawItems(i) : RawItems(i)[j].good
        /\ NextOf(i) # NoLink => Resolvable(NextOf(i))

\* C11: pagination termination.  When every request of the stream was
\* answered with a page whose items all decode, the elements yielded so far
\* are Ok elements carrying the pages' items in page order and in item order
\* within each page, each once; when the stream has ended they are all the
\* items of all the pages, every page but the last had a "next" link, the
\* last page has none, and no request is outstanding or issued afterwards.
C11_PaginationTermination ==
    /\ []((~overflow /\ GoodChain) =>
            /\ Len(yielded) <= Len(AllRaw)
            /\ \A j \in DOMAIN yielded :
                  /\ yielded[j].kind = "ok"
                  /\ yielded[j].item = <<AllRaw[j].no, AllRaw[j].ix>>
            /\ \A i \in DOMAIN fetches : i < Len(fetches) => NextOf(i) # NoLink
            /\ spc = "ended" =>
                  /\ Len(fetches) >= 1
                  /\ Len(yielded) = Len(AllRaw)
                  /\ NextOf(Len(fetches)) = NoLink
                  /\ pfetch = {})
    /\ [][spc = "ended" =>
            (spc' = "ended" /\ fetches' = fetches /\ pfetch' = pfetch
               /\ yielded' = yielded)]_vars

\* A chain of three pages, each with MaxItems items, was yielded in full and
\* the stream has ended.
C11_Witness ==
    /\ ~overflow /\ GoodChain /\ spc = "ended"
    /\ Len(fetches) = 3
    /\ \A i \in DOMAIN fetches : Len(RawItems(i)) = MaxItems
    /\ Len(yielded) = 3 * MaxItems

\* C12: single-item failure isolation.  Element j of the stream is the
\* outcome of decoding raw item j of the pages served: Ok with the item when
\* it decodes, one Err (Deserialization) when it does not; the stream then
\* goes on, so that when it has stopped by itself every raw item of every
\* page served has its element, and every page served that had a
\* resolvable "next" link was followed by a request for it.
C12_ItemFailureIsolation ==
    ~overflow =>
        /\ \A j \in DOMAIN yielded :
              j <= Len(AllRaw) =>
                 IF AllRaw[j].good
                 THEN /\ yielded[j].kind = "ok"
                      /\ yielded[j].item = <<AllRaw[j].no, AllRaw[j].ix>>
                 ELSE /\ yielded[j].kind = "err"
                      /\ yielded[j].err.kind = "Deserialization"
        /\ spc \in {"ended", "failed"} =>
              /\ Len(yielded) >= Len(AllRaw)
              /\ \A i \in DOMAIN fetches :
                    (Served(i) /\ NextOf(i) # NoLink /\ Resolvable(NextOf(i)))
                       => i < Len(fetches)

\* A page had a malformed item followed by a good one, both were yielded,
\* its link was followed, and the items of the next page were yielded too
\* before the stream ended.
C12_Witness ==
    /\ ~overflow /\ spc = "ended" /\ Len(fetches) >= 2 /\ Served(1) /\ Served(2)
    /\ Len(RawItems(1)) = 2 /\ ~RawItems(1)[1].good
    /\ Len(yielded) >= 3
    /\ yielded[1].kind = "err" /\ yielded[2].kind = "ok" /\ yielded[3].kind = "ok"
    /\ yielded[3].item = <<2, 1>>

\* The error get_json_map::<Paginated> gives for an answered request that
\* did not deliver a page.
FailureKind(w) ==
    IF w.kind \in {"noresp", "nobody"} THEN "Response"
    ELSE IF ~IsSuccess(w.status) THEN "ResponseStatus"
    ELSE "Deserialization"
\* The last page served has a "next" link that does not resolve, and the
\* stream has gone past its last item.
LinkFailed ==
    /\ Len(fetches) >= 1 /\ Served(Len(fetches))
    /\ NextOf(Len(fetches)) # NoLink /\ ~Resolvable(NextOf(Len(fetches)))
    /\ spc \in {"failed", "ended"}
LastYielded == yielded[Len(yielded)]

\* C13: a failed page is terminal.  When request N is answered without a
\* page (no response, unreadable body, non-2xx status, or a body that is not
\* a page), or the "next" link leading to page N does not resolve, the
\* stream has yielded the elements of pages 1..N-1 and then one Err with
\* that failure; request N is the last request, none is outstanding, and
\* from then on the stream yields nothing, requests nothing and can only
\* end.
C13_PageFailureIsTerminal ==
    /\ [](~overflow =>
            \A n \in DOMAIN fetches :
                FailedPage(n) =>
                   /\ n = Len(fetches)
                   /\ pfetch = {}
                   /\ spc \in {"failed", "ended", "dropped"}
                   /\ Len(yielded) = Len(RawUpTo(n - 1)) + 1
                   /\ LastYielded.kind = "err"
                   /\ LastYielded.err.kind = FailureKind(fetches[n].got))
    /\ []((~overflow /\ LinkFailed) =>
            /\ pfetch = {}
            /\ Len(yielded) = Len(AllRaw) + 1
            /\ LastYielded.kind = "err")
    /\ [][spc = "failed" =>
            /\ spc' \in {"ended", "dropped"}
            /\ fetches' = fetches /\ pfetch' = pfetch /\ yielded' = yielded]_vars

\* The second page request was answered 404 after the two items of the
\* first page were yielded; the stream yielded the error and ended.
C13_Witness ==
    /\ ~overflow /\ spc = "ended" /\ Len(fetches) = 2
    /\ Served(1) /\ Len(RawItems(1)) = 2
    /\ fetches[2].got.kind = "answer" /\ fetches[2].got.status = 404
    /\ Len(yielded) = 3 /\ yielded[3].err.kind = "ResponseStatus"

\* C14: pages are fetched one after the other and on demand.  At most one
\* page request is outstanding; a step that issues one issues exactly one,
\* in a poll of the consumer, after every earlier request was answered with
\* a page and every item of those pages was yielded; after the stream was
\* dropped or has ended nothing is requested; and when the stream is dropped
\* at most one request is lost with it, every page before the last one
\* requested having been yielded in full.
C14_SequentialOnDemand ==
    /\ [](Cardinality(pfetch) <= 1)
    /\ [][(~overflow' /\ Len(fetches') > Len(fetches)) =>
            /\ Len(fetches') = Len(fetches) + 1
            /\ pfetch' = {[id |-> Len(fetches'), url |-> fetches'[Len(fetches')].url]}
            /\ spc \in {"new", "ready", "fetching"} /\ spc' = "fetching"
            /\ \A i \in DOMAIN fetches : IsPage(fetches'[i].got)
            /\ Len(yielded') = Len(AllRaw')]_vars
    /\ [][(spc \in {"dropped", "ended"}) =>
            (spc' = spc /\ fetches' = fetches /\ pfetch' = pfetch)]_vars
    /\ []((~overflow /\ spc = "dropped") =>
            /\ Cardinality({i \in DOMAIN fetches : fetches[i].got = DroppedOutcome}) <= 1
            /\ \A i \in DOMAIN fetches : i < Len(fetches) => Served(i)
            /\ Len(fetches) >= 1 => Len(yielded) >= Len(RawUpTo(Len(fetches) - 1)))

\* The stream was dropped while the request for the second page was
\* outstanding, after the two items of the first page had been yielded.
C14_Witness ==
    /\ ~overflow /\ spc = "dropped" /\ Len(fetches) = 2
    /\ Served(1) /\ Len(RawItems(1)) = 2 /\ Len(yielded) = 2
    /\ fetches[2].got = DroppedOutcome

\* C15: the URL of the first request is the head URL; the URL of every
\* later request is the "next" link of the page before it, unchanged when
\* the link has a host and joined to the entrypoint when it has none; a
\* link without a host that does not join ends the stream with the
\* pagination error carrying the join's message.
C15_NextLinkResolution ==
    ~overflow =>
        /\ Len(fetches) >= 1 => fetches[1].url = HeadUrl
        /\ \A k \in DOMAIN fetches :
              k > 1 =>
                 /\ Served(k - 1) /\ NextOf(k - 1) # NoLink
                 /\ IF NextOf(k - 1)[1] # ""
                    THEN fetches[k].url = NextOf(k - 1)
                    ELSE /\ Join(Entrypoint, NextOf(k - 1)).ok
                         /\ fetches[k].url = Join(Entrypoint, NextOf(k - 1)).url
        /\ LinkFailed =>
              /\ LastYielded.err.kind = "PaginationItemDeserialization"
              /\ LastYielded.err.msg = Join(Entrypoint, NextOf(Len(fetches))).msg

\* The first page linked to the second without a host, the second to the
\* third with a host, and the third had a link that does not resolve.
C15_Witness ==
    /\ ~overflow /\ Len(fetches) = 3 /\ LinkFailed
    /\ NextOf(1) = <<"", "n">> /\ fetches[2].url = <<"entry", "n">>
    /\ NextOf(2) = <<"peer", "n">> /\ fetches[3].url = <<"peer", "n">>

\* C16: the stream is finite.  Whatever the server answers, a consumer that
\* keeps pulling reaches the end of the stream (a consumer that drops the
\* stream has stopped pulling).
C16_StreamIsFinite == (spc = "new") ~> (spc \in {"ended", "dropped"})

\* ---------------------------------------- claims: single-shot operations

\* The task's operation of the Api trait has returned after its transport
\* call answered.
Returned(ops) == ret.op \in ops /\ ret.g # NoTransportResult

\* C17: every operation built on the status check (get_json_map,
\* post_json_map, the delete operations, the file download) answers a
\* non-2xx response with the ResponseStatus error that carries the status
\* and the body of that response, whether or not the body would decode; a
\* JSON operation answers a 2xx response whose body does not decode into
\* its type with a Deserialization error.
C17_StatusErrorKeepsBody ==
    (Returned(ApiOps) /\ ret.g.ok) =>
        /\ ~IsSuccess(ret.g.status) =>
              /\ ~ret.out.ok
              /\ ret.out.err.kind = "ResponseStatus"
              /\ ret.out.err.status = ret.g.status
              /\ ret.out.err.body = ret.g.body
        /\ (IsSuccess(ret.g.status) /\ ret.op \in JsonOps
              /\ ~(ret.g.body.kind = "doc" /\ DecodesInto(ret.t, ret.g.body.val))) =>
              /\ ~ret.out.ok
              /\ ret.out.err.kind = "Deserialization"

\* C18: no retries.  A single-shot operation that has made its transport
\* call has sent exactly one request, with its method and to its Url, and
\* has still sent exactly that one when it has returned, with Ok or with
\* Err; a step of the stream that requests a page requests one page, the
\* head or the page the "next" link of the page answered last leads to, so
\* that no page, answered or failed, is requested a second time.
C18_NoRetries ==
    /\ [](cur # NoCall =>
            sent = <<[method |-> MethodOf(cur.op), url |-> cur.url]>>)
    /\ []((ret # NoRet /\ ret.op \in RawOps \cup JsonOps \cup DeleteOps) =>
            /\ Len(sent) = 1
            /\ sent[1].method = MethodOf(ret.op))
    /\ [][sent' # sent => (sent = <<>> /\ cur = NoCall /\ cur' # NoCall)]_vars
    /\ [][(~overflow' /\ Len(fetches') > Len(fetches)) =>
            /\ Len(fetches') = Len(fetches) + 1
            /\ Len(fetches) >= 1 =>
                  /\ IsPage(fetches'[Len(fetches)].got)
                  /\ fetches'[Len(fetches)].got.body.next # NoLink]_vars

\* A get_json_map call whose request failed has returned the error, having
\* sent one request.
C18_Witness ==
    /\ ret.op = "get_json_map" /\ ret.g # NoTransportResult /\ ~ret.g.ok
    /\ ~ret.out.ok /\ Len(sent) = 1 /\ cur = NoCall

\* C19: Client::get returns Ok with the body and the status of the response
\* whenever a response with a readable body arrived, whatever the status,
\* and Err (RuntimeError::Response) exactly when no response arrived or its
\* body could not be read.
C19_RawGetKeepsStatus ==
    (ret.op = "get") =>
        /\ ret.w.kind = "answer" =>
              /\ ret.out.ok
              /\ ret.out.val = ret.w.body
              /\ ret.out.status = ret.w.status
        /\ ret.w.kind \in {"noresp", "nobody"} =>
              /\ ~ret.out.ok
              /\ ret.out.err.kind = "Response"
              /\ ret.out.err.msg = ret.w.msg
        /\ ret.w.kind \in {"answer", "noresp", "nobody"}

\* Client::get returned Ok with the text body and status 404 of the
\* response.
C19_Witness ==
    /\ ret.op = "get" /\ ret.w.kind = "answer" /\ ret.w.status = 404
    /\ ret.w.body = TextBody
    /\ ret.out.ok /\ ret.out.status = 404 /\ ret.out.val = TextBody

\* ---------------------------------------------------- claims: containers

C21_UniversalHeaders ==
    \A i \in DOMAIN reqs : reqs[i].headers = reqs[i].had

\* C22: the request context is what construction and the explicit changes
\* (with_universal_header, config_mut) left it, and no request changes it.
C22_ContextFrame ==
    /\ [](config # NoConfig =>
            (config = made.config /\ universal_headers = made.headers))
    /\ [][reqs' # reqs =>
            (config' = config /\ universal_headers' = universal_headers)]_vars

\* Two requests were made, one of them through the CachingClient, by a
\* client that has two universal headers.
C22_Witness ==
    /\ Len(reqs) = 2 /\ Len(universal_headers) = 2
    /\ \E i \in DOMAIN reqs : reqs[i].via = "CachingClient"
    /\ \E i \in DOMAIN reqs : reqs[i].via = "Client"
    /\ config = made.config /\ universal_headers = made.headers

\* ------------------------------- claims: traversal through the cache

\* A traversal that started after traversal c had ended, in a cache that
\* never evicted, yields what c yielded and is answered from the cache on
\* every page.
SecondTraversalFromCache ==
    \A c, d \in Traversers :
        (trav[d].state = "ended" /\ c \in trav[d].after /\ evicted = {}) =>
            /\ trav[d].elems = trav[c].elems
            /\ \A i \in DOMAIN trav[d].pages : trav[d].pages[i].hit

\* C23 as stated: a traversal after a full one is served from the cache
\* with the same elements, and no page URL is ever fetched twice.
C23_EachPageFetchedOnce ==
    /\ SecondTraversalFromCache
    /\ \A i, j \in DOMAIN fetched : i # j => fetched[i].url # fetched[j].url

\* C23, amended: a traversal after a full one is served from the cache with
\* the same elements while nothing was evicted, and a page URL is fetched
\* again only when its earlier fetch failed or was dropped with its stream,
\* or when its entry was evicted.
C23_PagesCachedByUrl ==
    /\ SecondTraversalFromCache
    /\ \A i, j \in DOMAIN fetched :
          (i < j /\ fetched[i].url = fetched[j].url) =>
             \/ fetched[i].got # NoReply /\ ~FetchInit(fetched[i].got).ok
             \/ CacheKey(fetched[i].url) \in evicted

\* Traversal 2 started after traversal 1 had read both pages; nothing was
\* evicted, two requests were made in all, and traversal 2 yielded the same
\* three elements from the cache.
C23_Witness ==
    /\ trav[1].state = "ended" /\ trav[2].state = "ended" /\ 1 \in trav[2].after
    /\ evicted = {} /\ Len(fetched) = 2
    /\ Len(trav[2].elems) = 3 /\ trav[2].elems = trav[1].elems
    /\ \A i \in DOMAIN trav[2].pages : trav[2].pages[i].hit

\* --------------------------------------------- claims: collection reads

\* The value of key k in a query, NoArg when the query has no such key.
QueryValue(query, k) ==
    IF \E i \in DOMAIN query : query[i][1] = k
    THEN query[CHOOSE i \in DOMAIN query : query[i][1] = k][2]
    ELSE NoArg

\* C24: the Url get_requests_by_status_and_account_and_target_date_between
\* requests has the given status under status, the given account under
\* account, and the formatted start and end of the time range.
C24_AccountFilter ==
    \A i \in DOMAIN qreq :
        qcall.op = "get_requests_by_status_and_account_and_target_date_between" =>
            /\ QueryValue(qreq[i].query, "status") = qcall.status
            /\ QueryValue(qreq[i].query, "account") = qcall.account
            /\ QueryValue(qreq[i].query, "start") = FormatIso(qcall.start).str
            /\ QueryValue(qreq[i].query, "end") = FormatIso(qcall.end).str

\* The start Url of the read called cannot be built: the path does not
\* join the entrypoint, a time of the range does not format, or the status
\* does not convert.
StartFails ==
    /\ qcall # NoQuery
    /\ \/ ~PathToUrlFrom(qcall.entry, "accounts").ok
       \/ qcall.start # NoArg /\ ~FormatIso(qcall.start).ok
       \/ qcall.end # NoArg /\ ~FormatIso(qcall.end).ok
       \/ qcall.op = "get_requests_by_status" /\ ~TryIntoStatus(qcall.status).ok

\* C26: when the start Url of a collection read cannot be built, the read
\* returns a stream that yields exactly one Err, carrying that error, and
\* then ends, and no request is issued.
C26_OnceErr ==
    StartFails =>
        /\ qs \in {"err_new", "err_yielded", "ended"}
        /\ qreq = <<>>
        /\ qstart.err.kind \in {"InvalidUri", "TimeFormatError", "EnumDeserialization"}
        /\ qs = "err_new" => qout = <<>>
        /\ qs \in {"err_yielded", "ended"} => qout = <<[kind |-> "err", err |-> qstart.err]>>

\* ----------------------------------------------- claims: POST builders

\* The resource Url of a path: the path resolved against the entrypoint.
ResourceUrl(path) == UrlUnchecked(PathToUrl(path))

\* C25: in the override builder satellite_configuration_id(id) sets the
\* configuration to the Url of satellite_configurations/{id}, the Url
\* SatelliteBuilder::satellite_configuration_id sets for the same id, and
\* satellite_id(id) sets the satellite to the Url of satellites/{id}.
C25_OverrideConfigurationUrl ==
    /\ (ob.state # "none" /\ ob.cfg_id # 0) =>
          /\ ob.configuration = ResourceUrl("satellite_configurations/" \o ToString(ob.cfg_id))
          /\ (sb.state # "none" /\ sb.cfg_id = ob.cfg_id) =>
                sb.configuration = ob.configuration
    /\ (ob.state # "none" /\ ob.sat_id # 0) =>
          ob.satellite = ResourceUrl("satellites/" \o ToString(ob.sat_id))

\* ------------------------------------------------ claims: task request

\* The step a builder method belongs to.
StepOf(method) ==
    IF method \in {"exact_task", "flex_task", "test_task"} THEN "type"
    ELSE IF method = "target_time_utc" THEN "target time"
    ELSE IF method = "task_duration" THEN "duration"
    ELSE IF method \in {"satellite_id", "satellite_url"} THEN "satellite"
    ELSE IF method \in {"site_id", "site_url"} THEN "site"
    ELSE IF method \in {"site_configuration_id", "site_configuration_url"}
    THEN "site configuration"
    ELSE IF method \in {"band_ids", "band_urls"} THEN "bands"
    ELSE "optional"
StepOrder ==
    <<"type", "target time", "duration", "satellite", "site", "site configuration", "bands">>
Called(method) == \E i \in DOMAIN tcall : tcall[i] = method
\* The type of the kind chosen in the first step.
ChosenType ==
    IF tcall[1] = "exact_task" THEN "Exact"
    ELSE IF tcall[1] = "test_task" THEN "Test"
    ELSE tb.kind.kind

\* C27: the builder is sendable exactly when the seven steps were called in
\* the fixed order type, target time, duration, satellite, site, site
\* configuration, bands; the request it then holds has the type of the kind
\* chosen first, hours_of_flex only for a flex task, test_file only for a
\* test task, minimum_duration equal to duration unless
\* task_minimum_duration was called and no override unless override_id or
\* override_url was called; a later optional setter changes only its own
\* field.
C27_TaskRequestBuilder ==
    /\ [](/\ tb.state = "TaskRequest" <=> Len(tcall) >= Len(StepOrder)
          /\ \A i \in DOMAIN tcall :
                StepOf(tcall[i]) = IF i <= Len(StepOrder) THEN StepOrder[i] ELSE "optional"
          /\ tb.state = "TaskRequest" =>
                /\ tb.request.typ = ChosenType
                /\ tb.request.typ \in {"Exact", "Test", "Before", "After", "Around"}
                /\ tb.request.hours_of_flex =
                      IF tcall[1] = "flex_task" THEN Some(tb.kind.hours_of_flex) ELSE None
                /\ tb.request.test_file =
                      IF tcall[1] = "test_task" THEN Some(tb.kind.test_file) ELSE None
                /\ ~Called("task_minimum_duration") =>
                      tb.request.minimum_duration = Some(tb.request.duration)
                /\ tb.request.duration = tb.duration
                /\ ~(Called("override_id") \/ Called("override_url")) =>
                      tb.request.with_override = None)
    /\ [][(tb.state = "TaskRequest" /\ tcall' # tcall) =>
            /\ tb'.state = "TaskRequest"
            /\ tcall'[Len(tcall')] = "task_minimum_duration" =>
                  tb'.request = [tb.request EXCEPT
                                   !.minimum_duration = tb'.request.minimum_duration]
            /\ tcall'[Len(tcall')] \in {"override_id", "override_url"} =>
                  tb'.request = [tb.request EXCEPT
                                   !.with_override = tb'.request.with_override]]_vars
\* A test task with its minimum duration and its override set after the
\* seven steps.
C27_Witness ==
    /\ tb.state = "TaskRequest"
    /\ tcall[1] = "test_task"
    /\ Called("task_minimum_duration")
    /\ Called("override_id")
    /\ tb.request.minimum_duration # Some(tb.request.duration)
    /\ tb.request.with_override # None
    /\ tb.request.test_file = Some("f1")

\* ---------------------------------------------- claims: HATEOAS helpers

\* C28: a helper called for a relation the links do not have returns
\* MissingUri naming the relation and has issued no GET; called for a
\* relation the links have, it issues one GET, to the Url of that link.
C28_MissingUri ==
    hcall.state # "none" =>
        IF hcall.reference \in DOMAIN hcall.links
        THEN hgets = <<hcall.links[hcall.reference]>>
        ELSE /\ hgets = <<>>
             /\ hcall.state = "done"
             /\ ~hret.ok
             /\ hret.err.kind = "MissingUri"
             /\ hret.err.msg = hcall.reference
\* get_content returned MissingUri for a relation that is not linked while
\* another relation is.
C28_Witness ==
    /\ hcall.state = "done"
    /\ hcall.helper = "get_content"
    /\ hcall.reference \notin DOMAIN hcall.links
    /\ hcall.links # <<>>
    /\ hret.err = MissingUri(hcall.reference)
    /\ hgets = <<>>

\* --------------------------------------- claims: untyped JSON in the cache

\* The error of a JSON value that does not decode into the caller's type.
ShapeError(r) == r.kind = "err" /\ r.err = <<"Deserialization", "shape">>

\* C29: a get that returns the error of a typed decoding leaves the key
\* populated with the JSON value that did not decode; a get of a populated
\* key returns without a request and without changing the cache, with the
\* same error when the stored value does not decode into its type and with
\* the stored value when it does.
C29_UntypedJsonCached ==
    [][\A c \in Callers : Returns(c) =>
        LET k == CacheKey(url'[c]) IN
        /\ ShapeError(res'[c]) =>
              /\ cache'[k] # Nil
              /\ cache'[k].ok
              /\ ~DecodesInto(typ'[c], cache'[k].val)
        /\ cache[k] # Nil =>
              /\ fetched' = fetched
              /\ cache' = cache
              /\ res'[c].hit
              /\ IF DecodesInto(typ'[c], cache[k].val)
                 THEN res'[c].kind = "ok" /\ res'[c].val = cache[k].val
                 ELSE ShapeError(res'[c])]_vars
\* One request served three gets of one Url: the first failed to decode
\* into its type, the second failed in the same way from the cache, the
\* third decoded the cached value into another type.
C29_Witness ==
    /\ \A c \in Callers : pc[c] = "done" /\ url[c] = url[1]
    /\ NumCallers >= 3
    /\ typ[1] = "T2" /\ ShapeError(res[1]) /\ ~res[1].hit
    /\ typ[2] = "T2" /\ ShapeError(res[2]) /\ res[2].hit
    /\ typ[3] = "T1" /\ res[3].kind = "ok" /\ res[3].hit
    /\ Len(fetched) = 1

\* ------------------------------------------ claims: POST through the cache

\* C30: a step of a POST through the caching client changes no entry of the
\* cache and sends no GET; while the entry the posted Url had has not been
\* evicted it is still the entry of the Url, and a get of the Url is
\* answered from it without a request.
C30_PostKeepsCache ==
    /\ [][post' # post => cacheVars' = cacheVars]_vars
    /\ []((post.state # "none" /\ post.had # Nil /\ CacheKey(post.url) \notin evicted) =>
            cache[CacheKey(post.url)] = post.had)
    /\ [][\A c \in Callers :
            (/\ Returns(c)
             /\ post.state = "returned"
             /\ url'[c] = post.url
             /\ post.had # Nil
             /\ CacheKey(post.url) \notin evicted) =>
                /\ res'[c] = Answer(typ'[c], post.had, post.had.from, TRUE)
                /\ fetched' = fetched]_vars
\* A get of a Url was answered from the cache with the value the Url had
\* before a POST to it was sent and returned.
C30_Witness ==
    /\ post.state = "returned"
    /\ post.had # Nil
    /\ post.out.kind = "ok"
    /\ \E c \in Callers :
          /\ pc[c] = "done"
          /\ url[c] = post.url
          /\ res[c].hit
          /\ res[c].kind = "ok"
          /\ res[c].val = post.had.val
          /\ \E d \in Callers : d < c /\ pc[d] = "done" /\ ~res[d].hit /\ url[d] = post.url
    /\ Len(fetched) = 1
    /\ evicted = {}
====
